---- MODULE Spec2Model ----
(***************************************************************************)
(* Call-graph construction of callgraph4rs: the constraint-path analyzer   *)
(* (constraint_utils.rs), the callee resolver and the worklist builder     *)
(* (callgraph/analysis.rs) and the edge deduplication (callgraph/utils.rs).*)
(***************************************************************************)
EXTENDS Integers, Sequences, FiniteSets, TLC

(***************************************************************************)
(* Bounds of the model.                                                    *)
(***************************************************************************)
\* number of basic blocks of a body drawn for the analyzer
NumBlocks == 4

\* the entry block of every MIR body
START_BLOCK == 0

Blocks == 0..(NumBlocks - 1)

(***************************************************************************)
(* Small helpers on sequences.                                             *)
(***************************************************************************)
Range(s) == {s[i] : i \in 1..Len(s)}

Last(s) == s[Len(s)]

(***************************************************************************)
(* constraint_utils.rs: BlockPath and the breadth-first traversal.         *)
(* A terminator is [kind, succ, func]; only kind and succ matter here.     *)
(***************************************************************************)
NoFunc == [op |-> "None"]

Term(kind, succ) == [kind |-> kind, succ |-> succ, func |-> NoFunc]

\* BlockPath::new
BlockPathNew(block) ==
    [blocks |-> <<block>>, length |-> 0, constraints |-> 0,
     constraint_details |-> <<>>]

\* BlockPath::extend with the constraint counted for every kind of terminator
BlockPathExtendAlways(self, block, info) ==
    [blocks |-> Append(self.blocks, block),
     length |-> self.length + 1,
     constraints |-> self.constraints + 1,
     constraint_details |-> self.constraint_details \o info]

\* BlockPath::extend; info is <<>> (None) or <<ConstraintInfo>> (Some)
BlockPathExtend(self, block, info) ==
    [blocks |-> Append(self.blocks, block),
     length |-> self.length + 1,
     constraints |-> IF info # <<>> THEN self.constraints + 1 ELSE self.constraints,
     constraint_details |-> self.constraint_details \o info]

\* is_constraint_terminator: <<>> (None) or <<kind>> (Some)
IsConstraintTerminator(kind) ==
    IF kind = "SwitchInt" THEN <<"SwitchInt">> ELSE <<>>

\* result.insert(target, new_path)
MapInsert(m, k, v) == [x \in (DOMAIN m) \cup {k} |-> IF x = k THEN v ELSE m[x]]

\* the body of `for target in terminator.successors()` without the visited test
VisitSuccessorNoCheck(block, kind, current_path, st, target) ==
    LET info == IF IsConstraintTerminator(kind) = <<>> THEN <<>>
                ELSE <<[block |-> block, kind |-> kind]>>
    IN  [result  |-> MapInsert(st.result, target,
                               BlockPathExtend(current_path, target, info)),
         visited |-> st.visited \cup {target},
         queue   |-> Append(st.queue, target)]

\* the body of `for target in terminator.successors()`
VisitSuccessor(block, kind, current_path, st, target) ==
    IF target \notin st.visited
    THEN LET info == IF IsConstraintTerminator(kind) = <<>> THEN <<>>
                     ELSE <<[block |-> block, kind |-> kind]>>
         IN  [result  |-> MapInsert(st.result, target,
                                    BlockPathExtend(current_path, target, info)),
              visited |-> st.visited \cup {target},
              queue   |-> Append(st.queue, target)]
    ELSE st

RECURSIVE VisitSuccessors(_, _, _, _, _, _)
VisitSuccessors(block, kind, current_path, succ, i, st) ==
    IF i > Len(succ) THEN st
    ELSE VisitSuccessors(block, kind, current_path, succ, i + 1,
                         VisitSuccessor(block, kind, current_path, st, succ[i]))

\* the state of compute_shortest_paths before its loop
BfsInit ==
    [result  |-> MapInsert(<<>>, START_BLOCK, BlockPathNew(START_BLOCK)),
     visited |-> {START_BLOCK},
     queue   |-> <<START_BLOCK>>]

\* one iteration of `while let Some(block) = queue.pop_front()`
BfsIteration(cfg, st) ==
    LET block == Head(st.queue)
        current_path == st.result[block]
        term == cfg[block]
    IN  VisitSuccessors(block, term.kind, current_path, term.succ, 1,
                        [st EXCEPT !.queue = Tail(st.queue)])

RECURSIVE BfsRun(_, _)
BfsRun(cfg, st) ==
    IF st.queue = <<>> THEN st ELSE BfsRun(cfg, BfsIteration(cfg, st))

\* compute_shortest_paths: the map block -> BlockPath
ComputeShortestPaths(cfg) == BfsRun(cfg, BfsInit).result


(***************************************************************************)
(* callgraph/function.rs, callgraph/types.rs: instances and call sites.    *)
(* A definition is a number: 1..NumDefs are the functions of the analysed  *)
(* crate (its body owners), ForeignDef is a function without MIR.  Generic *)
(* arguments are "T" (the definition's own parameter) or a concrete type.  *)
(***************************************************************************)
\* number of function definitions of the analysed crate
NumDefs == 2

Defs == 1..NumDefs

\* a function whose MIR is not available (is_mir_available is false)
ForeignDef == 0

AllDefs == {ForeignDef} \cup Defs

\* FunctionInstance::new_instance
Instance(d, a) == [kind |-> "Instance", def |-> d, args |-> a]

\* FunctionInstance::new_non_instance
NonInstance(d) == [kind |-> "NonInstance", def |-> d, args |-> ""]

\* FunctionInstance::is_non_instance
IsNonInstance(inst) == inst.kind # "Instance"

\* CallSite::new
CallSite(caller, callee, constraint_count) ==
    [caller |-> caller, callee |-> callee, constraint_cnt |-> constraint_count]

(***************************************************************************)
(* The program model (rustc's queries), as far as the resolver uses it.    *)
(***************************************************************************)
\* value types: a base type and the region it mentions
Ty(base, region) == [base |-> base, region |-> region]

\* tcx.erase_regions
EraseRegions(t) == [t EXCEPT !.region = "'erased"]

FnSigOf(inputs, output) == [inputs |-> inputs, output |-> output]

\* tcx.fn_sig(def_id): the crate's functions take a string slice and return an
\* i32, every third one takes two i32
FnSig(d) ==
    IF d % 3 = 0
    THEN FnSigOf(<<Ty("i32", ""), Ty("i32", "")>>, Ty("i32", ""))
    ELSE FnSigOf(<<Ty("&str", IF d % 3 = 1 THEN "'a" ELSE "'static")>>, Ty("i32", ""))

\* the types a callee operand may have
FnDefTy(d, a, normalizes) ==
    [tag |-> "FnDef", def |-> d, args |-> a, normalizes |-> normalizes]

FnPtrTy(sig) == [tag |-> "FnPtr", sig |-> sig, args |-> "", normalizes |-> TRUE]

ClosureTy == [tag |-> "Closure", args |-> "", normalizes |-> TRUE]

Operand(op, ty) == [op |-> op, ty |-> ty]

CallTerm(func, succ) == [kind |-> "Call", succ |-> succ, func |-> func]

\* monomorphize: the caller's generic arguments are substituted for "T"; a
\* type that does not normalize is an error
Monomorphize(caller, ty) ==
    IF ~ty.normalizes THEN [ok |-> FALSE]
    ELSE [ok |-> TRUE,
          ty |-> [ty EXCEPT !.args = IF @ = "T" THEN caller.args ELSE @]]

\* tcx.def_kind
DefKind(d) == "Fn"

\* ty::Instance::try_resolve: an error for arguments holding an error type,
\* no instance for the own parameter of a definition that does not resolve
\* (roots: the definitions collect_generic_instances resolved) and none for
\* arguments that do not name one implementation ("dyn")
TryResolve(roots, d, a) ==
    IF a = "{error}" THEN [tag |-> "Err"]
    ELSE IF a = "dyn" THEN [tag |-> "Ok", inst |-> <<>>]
    ELSE IF a = "T" /\ d \in Defs /\ Instance(d, "T") \notin Range(roots)
    THEN [tag |-> "Ok", inst |-> <<>>]
    ELSE [tag |-> "Ok", inst |-> <<Instance(d, a)>>]

\* trivial_resolve: <<>> (None) or <<instance>> (Some)
TrivialResolve(roots, d) ==
    LET r == TryResolve(roots, d, "T")
    IN  IF r.tag = "Ok" /\ r.inst # <<>> THEN r.inst ELSE <<>>

\* types_match_ignoring_regions
TypesMatchIgnoringRegions(a, b) == EraseRegions(a) = EraseRegions(b)

\* the test a candidate's signature passes in candidates_for_fnptr_sig, with
\* the return type left out
SigMatchesNoOutput(cand, sig) ==
    /\ Len(cand.inputs) = Len(sig.inputs)
    /\ \A i \in 1..Len(cand.inputs) :
          TypesMatchIgnoringRegions(cand.inputs[i], sig.inputs[i])

\* the test a candidate's signature passes in candidates_for_fnptr_sig
SigMatches(cand, sig) ==
    /\ Len(cand.inputs) = Len(sig.inputs)
    /\ TypesMatchIgnoringRegions(cand.output, sig.output)
    /\ \A i \in 1..Len(cand.inputs) :
          TypesMatchIgnoringRegions(cand.inputs[i], sig.inputs[i])

\* candidates_for_fnptr_sig: the loop over tcx.hir_body_owners() from owner d on
RECURSIVE CandidatesFrom(_, _, _)
CandidatesFrom(roots, sig, d) ==
    IF d > NumDefs THEN <<>>
    ELSE (IF SigMatches(FnSig(d), sig)
          THEN (IF TrivialResolve(roots, d) # <<>>
                THEN TrivialResolve(roots, d)
                ELSE <<NonInstance(d)>>)
          ELSE <<>>)
         \o CandidatesFrom(roots, sig, d + 1)

CandidatesForFnptrSig(roots, sig) == CandidatesFrom(roots, sig, 1)

(***************************************************************************)
(* callgraph/analysis.rs: SearchFunctionCall.  The visitor's state is      *)
(* [callees, panic]; panic is set when `self.constraints[&self.current_bb]`*)
(* indexes a block the map does not hold.                                  *)
(***************************************************************************)
\* handle_mono_error with None in every arm
HandleMonoErrorSkip(func, before_mono_ty) == <<>>

\* handle_mono_error: <<>> (None) or <<instance>> (Some)
HandleMonoError(func, before_mono_ty) ==
    IF func.op = "Constant"
    THEN (IF before_mono_ty.tag = "FnDef"
          THEN <<NonInstance(before_mono_ty.def)>>
          ELSE <<>>)
    ELSE <<>>

\* handle_monoed_direct_callee without the trivial resolution of the
\* Ok(None) arm
HandleMonoedDirectCalleeNoTrivial(roots, monod) ==
    IF monod.tag = "FnDef"
    THEN IF DefKind(monod.def) \in {"Fn", "AssocFn"}
         THEN LET r == TryResolve(roots, monod.def, monod.args)
              IN  IF r.tag = "Err" THEN <<>>
                  ELSE IF r.inst # <<>> THEN r.inst
                  ELSE <<NonInstance(monod.def)>>
         ELSE <<>>
    ELSE <<>>

\* handle_monoed_direct_callee: <<>> (None) or <<instance>> (Some)
HandleMonoedDirectCallee(roots, monod) ==
    IF monod.tag = "FnDef"
    THEN IF DefKind(monod.def) \in {"Fn", "AssocFn"}
         THEN LET r == TryResolve(roots, monod.def, monod.args)
              IN  IF r.tag = "Err" THEN <<>>
                  ELSE IF r.inst # <<>> THEN r.inst
                  ELSE IF TrivialResolve(roots, monod.def) # <<>>
                  THEN TrivialResolve(roots, monod.def)
                  ELSE <<NonInstance(monod.def)>>
         ELSE <<>>
    ELSE <<>>

\* self.callees.push(CallSite::new(caller, callee, constraints[current_bb].constraints))
PushCallee(self, caller, callee, constraints, current_bb) ==
    IF self.panic THEN self
    ELSE IF current_bb \notin DOMAIN constraints
    THEN [self EXCEPT !.panic = TRUE]
    ELSE [self EXCEPT !.callees =
              Append(@, CallSite(caller, callee, constraints[current_bb].constraints))]

RECURSIVE PushCandidates(_, _, _, _, _, _)
PushCandidates(self, caller, candidates, i, constraints, current_bb) ==
    IF i > Len(candidates) THEN self
    ELSE PushCandidates(PushCallee(self, caller, candidates[i], constraints, current_bb),
                        caller, candidates, i + 1, constraints, current_bb)

\* handle_monoed_indirect_callee: the candidates are pushed here and the
\* function returns None
HandleMonoedIndirectCallee(self, roots, caller, monod_ty, constraints, current_bb) ==
    IF monod_ty.tag = "FnPtr"
    THEN PushCandidates(self, caller, CandidatesForFnptrSig(roots, monod_ty.sig), 1,
                        constraints, current_bb)
    ELSE self

\* visit_terminator with the constraint count of the entry block for every call
VisitTerminatorEntryDepth(self, roots, caller, cfg, constraints, current_bb) ==
    LET term == cfg[current_bb]
        func == term.func
        monod_result == Monomorphize(caller, func.ty)
    IN  IF term.kind # "Call" \/ self.panic THEN self
        ELSE IF ~monod_result.ok
        THEN (IF HandleMonoError(func, func.ty) # <<>>
              THEN PushCallee(self, caller, HandleMonoError(func, func.ty)[1],
                              constraints, START_BLOCK)
              ELSE self)
        ELSE IF func.op = "Constant"
        THEN (IF HandleMonoedDirectCallee(roots, monod_result.ty) # <<>>
              THEN PushCallee(self, caller,
                              HandleMonoedDirectCallee(roots, monod_result.ty)[1],
                              constraints, START_BLOCK)
              ELSE self)
        ELSE HandleMonoedIndirectCallee(self, roots, caller, monod_result.ty,
                                        constraints, START_BLOCK)

\* visit_terminator (with handle_monoed_callee), for the block current_bb
VisitTerminator(self, roots, caller, cfg, constraints, current_bb) ==
    LET term == cfg[current_bb]
        func == term.func
        monod_result == Monomorphize(caller, func.ty)
    IN  IF term.kind # "Call" \/ self.panic THEN self
        ELSE IF ~monod_result.ok
        THEN (IF HandleMonoError(func, func.ty) # <<>>
              THEN PushCallee(self, caller, HandleMonoError(func, func.ty)[1],
                              constraints, current_bb)
              ELSE self)
        ELSE IF func.op = "Constant"
        THEN (IF HandleMonoedDirectCallee(roots, monod_result.ty) # <<>>
              THEN PushCallee(self, caller,
                              HandleMonoedDirectCallee(roots, monod_result.ty)[1],
                              constraints, current_bb)
              ELSE self)
        ELSE HandleMonoedIndirectCallee(self, roots, caller, monod_result.ty,
                                        constraints, current_bb)

\* visit_body: the blocks are visited in index order, from block b on
RECURSIVE VisitBody(_, _, _, _, _, _)
VisitBody(self, roots, caller, cfg, constraints, b) ==
    IF b \notin DOMAIN cfg THEN self
    ELSE VisitBody(VisitTerminator(self, roots, caller, cfg, constraints, b),
                   roots, caller, cfg, constraints, b + 1)

\* extract_function_call
ExtractFunctionCall(roots, caller, cfg, constraints) ==
    VisitBody([callees |-> <<>>, panic |-> FALSE], roots, caller, cfg, constraints,
              START_BLOCK)

\* tcx.is_mir_available
IsMirAvailable(d) == d # ForeignDef

\* collect_callsites without its two early returns: the body of a non-instance
\* or of a definition without MIR is asked for, which aborts
CollectCallsitesNoSkip(roots, bodies, inst) ==
    IF IsNonInstance(inst) THEN [callees |-> <<>>, panic |-> TRUE]
    ELSE IF ~IsMirAvailable(inst.def) THEN [callees |-> <<>>, panic |-> TRUE]
    ELSE ExtractFunctionCall(roots, inst, bodies[inst.def],
                             ComputeShortestPaths(bodies[inst.def]))

\* collect_callsites; bodies maps the definitions to their MIR
CollectCallsites(roots, bodies, inst) ==
    IF IsNonInstance(inst) THEN [callees |-> <<>>, panic |-> FALSE]
    ELSE IF ~IsMirAvailable(inst.def) THEN [callees |-> <<>>, panic |-> FALSE]
    ELSE ExtractFunctionCall(roots, inst, bodies[inst.def],
                             ComputeShortestPaths(bodies[inst.def]))

(***************************************************************************)
(* callgraph/utils.rs: deduplicate_call_sites.  Indices count from 0, as   *)
(* enumerate() does.                                                       *)
(***************************************************************************)
EdgeKey(call_site) == <<call_site.caller, call_site.callee>>

\* the first loop with `<=` in place of `<`
RECURSIVE MinScanLast(_, _, _)
MinScanLast(sites, i, m) ==
    IF i > Len(sites) THEN m
    ELSE LET key == EdgeKey(sites[i])
             cnt == sites[i].constraint_cnt
         IN  IF key \in DOMAIN m.min_constraints
             THEN (IF cnt <= m.min_constraints[key]
                   THEN MinScanLast(sites, i + 1,
                            [min_constraints |-> MapInsert(m.min_constraints, key, cnt),
                             min_indices |-> MapInsert(m.min_indices, key, i - 1)])
                   ELSE MinScanLast(sites, i + 1, m))
             ELSE MinScanLast(sites, i + 1,
                      [min_constraints |-> MapInsert(m.min_constraints, key, cnt),
                       min_indices |-> MapInsert(m.min_indices, key, i - 1)])

\* the first loop: min_constraints and min_indices after the call sites from
\* position i on
RECURSIVE MinScan(_, _, _)
MinScan(sites, i, m) ==
    IF i > Len(sites) THEN m
    ELSE LET key == EdgeKey(sites[i])
             cnt == sites[i].constraint_cnt
         IN  IF key \in DOMAIN m.min_constraints
             THEN (IF cnt < m.min_constraints[key]
                   THEN MinScan(sites, i + 1,
                            [min_constraints |-> MapInsert(m.min_constraints, key, cnt),
                             min_indices |-> MapInsert(m.min_indices, key, i - 1)])
                   ELSE MinScan(sites, i + 1, m))
             ELSE MinScan(sites, i + 1,
                      [min_constraints |-> MapInsert(m.min_constraints, key, cnt),
                       min_indices |-> MapInsert(m.min_indices, key, i - 1)])

\* indices_to_keep taken from min_constraints instead of min_indices
IndicesToKeepFromCounts(m) == {m.min_constraints[k] : k \in DOMAIN m.min_constraints}

\* indices_to_keep: min_indices.values()
IndicesToKeep(m) == {m.min_indices[k] : k \in DOMAIN m.min_indices}

\* the second loop: the call sites whose index is kept, in order
RECURSIVE KeepIndices(_, _, _)
KeepIndices(sites, i, keep) ==
    IF i > Len(sites) THEN <<>>
    ELSE (IF (i - 1) \in keep THEN <<sites[i]>> ELSE <<>>)
         \o KeepIndices(sites, i + 1, keep)

\* deduplicate_call_sites
DeduplicateCallSites(sites) ==
    KeepIndices(sites, 1,
                IndicesToKeep(MinScan(sites, 1, [min_constraints |-> <<>>,
                                                 min_indices |-> <<>>])))

(***************************************************************************)
(* callgraph/analysis.rs: perform_mono_analysis.                           *)
(***************************************************************************)
\* one pass of `for call_site in call_sites` that leaves the loop at a callee
\* already discovered
RECURSIVE PushCallSitesBreak(_, _, _)
PushCallSitesBreak(g, sites, i) ==
    IF i > Len(sites) THEN g
    ELSE LET callee == sites[i].callee
             pushed == [g EXCEPT !.call_sites = Append(@, sites[i])]
         IN  IF callee \in g.discovered
             THEN pushed
             ELSE PushCallSitesBreak(
                      [pushed EXCEPT !.discovered = @ \cup {callee},
                                     !.instances = Append(@, callee)],
                      sites, i + 1)

\* the loop with every callee pushed to the queue
RECURSIVE PushCallSitesAlways(_, _, _)
PushCallSitesAlways(g, sites, i) ==
    IF i > Len(sites) THEN g
    ELSE PushCallSitesAlways(
             [g EXCEPT !.call_sites = Append(@, sites[i]),
                       !.discovered = @ \cup {sites[i].callee},
                       !.instances = Append(@, sites[i].callee)],
             sites, i + 1)

\* the loop over the call sites that does not queue a callee without a body
RECURSIVE PushCallSitesBodiesOnly(_, _, _)
PushCallSitesBodiesOnly(g, sites, i) ==
    IF i > Len(sites) THEN g
    ELSE LET callee == sites[i].callee
             pushed == [g EXCEPT !.call_sites = Append(@, sites[i])]
         IN  IF callee \in g.discovered
             THEN PushCallSitesBodiesOnly(pushed, sites, i + 1)
             ELSE PushCallSitesBodiesOnly(
                      [pushed EXCEPT !.discovered = @ \cup {callee},
                                     !.instances =
                                         IF IsNonInstance(callee) \/ ~IsMirAvailable(callee.def)
                                         THEN @ ELSE Append(@, callee)],
                      sites, i + 1)

\* `for call_site in call_sites`: g is [call_sites, discovered, instances]
RECURSIVE PushCallSites(_, _, _)
PushCallSites(g, sites, i) ==
    IF i > Len(sites) THEN g
    ELSE LET callee == sites[i].callee
             pushed == [g EXCEPT !.call_sites = Append(@, sites[i])]
         IN  IF callee \in g.discovered
             THEN PushCallSites(pushed, sites, i + 1)
             ELSE PushCallSites(
                      [pushed EXCEPT !.discovered = @ \cup {callee},
                                     !.instances = Append(@, callee)],
                      sites, i + 1)

(***************************************************************************)
(* State.                                                                  *)
(***************************************************************************)
VARIABLES
    \* compute_shortest_paths: the body analysed and the locals of the loop
    body, result, visited, queue,
    \* perform_mono_analysis: the program model's answers, the CallGraph
    \* fields, the local set `discovered` and the position in the function
    generic_instances, no_dedup, mir, instances, call_sites, discovered, pc,
    \* history: every instance popped from the queue, in order
    dequeued,
    \* history: the edge list before each run of deduplicate_call_sites
    before,
    \* find_callers_by_predicate: the instances the predicate holds for, the
    \* locals all_callers, queue and processed, the position in the function
    \* and the value returned
    matching, all_callers, fc_queue, processed, qpc, returned,
    \* analyze_crate: the two target options, the position in the function,
    \* the searches run, the errors logged, the reports written and the exit
    \* status of the process
    find_callers, find_callers_by_hash, apc, searches, errors, outputs, exit_status,
    \* format_callers: the path of every definition, the callers handed in
    \* and the callers as listed
    def_path, callers, sorted_callers,
    \* the predicate of find_callers_by_path: the two names of the candidate,
    \* the target and the answer, <<>> before the predicate has run
    full_func_path, base_path, target_path, matched,
    \* timer.rs: the TIMER map, the calls of measure each thread is in, and
    \* history: per name the calls of measure completed, per thread the
    \* result of its last completed call
    timers, frames, completed, results,
    \* call-cg4rs: the shared pid set, every process started with its parent
    \* and whether it is alive, the position of main and the child it waits
    \* for, the position of the signal task and the pids it took from the set,
    \* the signal received, the signals sent to each pid and the exit status
    child_processes, procs, wpc, wchild, hpc, hpids, signal, sent, wexit

pvars == <<body, result, visited, queue>>

bvars == <<generic_instances, no_dedup, mir, instances, discovered, pc, dequeued>>

dvars == <<call_sites, before>>

qvars == <<matching, all_callers, fc_queue, processed, qpc, returned>>

avars == <<find_callers, find_callers_by_hash, apc, searches, errors, outputs,
           exit_status>>

rvars == <<def_path, callers, sorted_callers>>

svars == <<full_func_path, base_path, target_path, matched>>

tvars == <<timers, frames, completed, results>>

wvars == <<child_processes, procs, wpc, wchild, hpc, hpids, signal, sent, wexit>>

\* the state outside the call-graph construction
xvars == <<qvars, avars, rvars, svars, tvars, wvars>>

vars == <<pvars, bvars, dvars, xvars>>

PathsIdle ==
    /\ body = <<>>
    /\ result = <<>>
    /\ visited = {}
    /\ queue = <<>>

BuildIdle ==
    /\ generic_instances = <<>>
    /\ no_dedup = FALSE
    /\ mir = <<>>
    /\ instances = <<>>
    /\ discovered = {}
    /\ pc = "idle"
    /\ dequeued = <<>>

DedupIdle ==
    /\ call_sites = <<>>
    /\ before = <<>>

QueryIdle ==
    /\ matching = {}
    /\ all_callers = <<>>
    /\ fc_queue = <<>>
    /\ processed = {}
    /\ qpc = "idle"
    /\ returned = <<>>

AnalyzeIdle ==
    /\ find_callers = <<>>
    /\ find_callers_by_hash = <<>>
    /\ apc = "idle"
    /\ searches = <<>>
    /\ errors = <<>>
    /\ outputs = {}
    /\ exit_status = 0

ReportIdle ==
    /\ def_path = <<>>
    /\ callers = <<>>
    /\ sorted_callers = <<>>

MatchIdle ==
    /\ full_func_path = <<>>
    /\ base_path = <<>>
    /\ target_path = <<>>
    /\ matched = <<>>

TimerIdle ==
    /\ timers = <<>>
    /\ frames = <<>>
    /\ completed = <<>>
    /\ results = <<>>

WrapperIdle ==
    /\ child_processes = {}
    /\ procs = <<>>
    /\ wpc = "idle"
    /\ wchild = 0
    /\ hpc = "idle"
    /\ hpids = {}
    /\ signal = "none"
    /\ sent = <<>>
    /\ wexit = <<>>

\* nothing but the call-graph construction is running
ExtrasIdle ==
    /\ QueryIdle
    /\ AnalyzeIdle
    /\ ReportIdle
    /\ MatchIdle
    /\ TimerIdle
    /\ WrapperIdle

(***************************************************************************)
(* The analyzer as a state machine: one action per loop iteration.         *)
(***************************************************************************)
\* the blocks a terminator may name: the entry block of a MIR body has no
\* predecessor
Targets == Blocks \ {START_BLOCK}

\* the terminators a block of an analysed body may have: a SwitchInt has two
\* targets, a Call a return target and possibly an unwind target
Terminators ==
    {Term("Return", <<>>)}
    \cup {Term("Goto", <<t>>) : t \in Targets}
    \cup {Term("SwitchInt", <<t, u>>) : t \in Targets, u \in Targets}
    \cup {Term("Call", <<t>>) : t \in Targets}
    \cup {Term("Call", <<t, u>>) : t \in Targets, u \in Targets}

InitPaths ==
    /\ body \in [Blocks -> Terminators]
    /\ result = BfsInit.result
    /\ visited = BfsInit.visited
    /\ queue = BfsInit.queue
    /\ BuildIdle
    /\ DedupIdle
    /\ ExtrasIdle

BfsStep ==
    /\ queue # <<>>
    /\ LET st == BfsIteration(body, [result |-> result, visited |-> visited,
                                     queue |-> queue])
       IN  /\ result' = st.result
           /\ visited' = st.visited
           /\ queue' = st.queue
    /\ UNCHANGED <<body, bvars, dvars, xvars>>

NextPaths == BfsStep

SpecPaths == InitPaths /\ [][NextPaths]_vars


(***************************************************************************)
(* The bodies the builder's program model answers optimized_mir with.      *)
(***************************************************************************)
\* a body from the sequence of its terminators: block b is element b + 1
BodyOf(terms) == [b \in 0..(Len(terms) - 1) |-> terms[b + 1]]

DirectCall(x, a) == Operand("Constant", FnDefTy(x, a, TRUE))

\* fn d() {}
Leaf == BodyOf(<<Term("Return", <<>>)>>)

\* fn d<T>() { x::<T>() }
Straight(x) ==
    BodyOf(<<CallTerm(DirectCall(x, "T"), <<1>>), Term("Return", <<>>)>>)

\* fn d<T>() { if c { x::<T>() } else { y::<T>() } }
IfElse(x, y) ==
    BodyOf(<<Term("SwitchInt", <<1, 2>>),
             CallTerm(DirectCall(x, "T"), <<3>>),
             CallTerm(DirectCall(y, "T"), <<3>>),
             Term("Return", <<>>)>>)

\* fn d<T>() { if c { if e { x::<T>() } } x::<T>() }
Twice(x) ==
    BodyOf(<<Term("SwitchInt", <<1, 3>>),
             Term("SwitchInt", <<2, 3>>),
             CallTerm(DirectCall(x, "T"), <<3>>),
             CallTerm(DirectCall(x, "T"), <<4>>),
             Term("Return", <<>>)>>)

\* fn d() { x::<i32>(); x::<String>() }, the second call with an unwind edge
TwoInstantiations(x) ==
    BodyOf(<<CallTerm(DirectCall(x, "i32"), <<1>>),
             CallTerm(DirectCall(x, "String"), <<2, 3>>),
             Term("Return", <<>>),
             Term("UnwindResume", <<>>)>>)

\* fn d(f: fn(..) -> ..) { if c { f(..) } }
FnPtrCall(sig) ==
    BodyOf(<<Term("SwitchInt", <<1, 2>>),
             CallTerm(Operand("Move", FnPtrTy(sig)), <<2>>),
             Term("Return", <<>>)>>)

\* a direct call whose callee type does not normalize
MonoErrorCall(x) ==
    BodyOf(<<CallTerm(Operand("Constant", FnDefTy(x, "T", FALSE)), <<1>>),
             Term("Return", <<>>)>>)

\* a call through a value that is no function pointer (a closure)
ClosureCall ==
    BodyOf(<<CallTerm(Operand("Copy", ClosureTy), <<1>>), Term("Return", <<>>)>>)

\* fn d<T>(p, c) { p(); x::<{error}>(); c(); x::<..>(); x::<T>() }: a call
\* through a pointer whose type does not normalize, a direct call whose
\* resolution is an error, a call through a closure, a direct call whose type
\* does not normalize, and a direct call that resolves
FaultyCalls(x) ==
    BodyOf(<<CallTerm(Operand("Move",
                              [FnPtrTy(FnSigOf(<<Ty("i32", "")>>, Ty("i32", "")))
                                  EXCEPT !.normalizes = FALSE]), <<1>>),
             CallTerm(DirectCall(x, "{error}"), <<2>>),
             CallTerm(Operand("Copy", ClosureTy), <<3>>),
             CallTerm(Operand("Constant", FnDefTy(x, "T", FALSE)), <<4>>),
             CallTerm(DirectCall(x, "T"), <<5>>),
             Term("Return", <<>>)>>)

\* fn d() { x::<dyn ..>() }: a direct call whose arguments name no one
\* implementation
AbstractCall(x) ==
    BodyOf(<<CallTerm(DirectCall(x, "dyn"), <<1>>), Term("Return", <<>>)>>)

\* the signatures of the function-pointer calls: one that the string-slice
\* functions match up to regions, one that the two-i32 functions match, one
\* with another return type and one with another parameter type
CallSigs ==
    {FnSigOf(<<Ty("&str", "'b")>>, Ty("i32", "")),
     FnSigOf(<<Ty("i32", ""), Ty("i32", "")>>, Ty("i32", "")),
     FnSigOf(<<Ty("&str", "'b")>>, Ty("&str", "'b")),
     FnSigOf(<<Ty("i32", "")>>, Ty("i32", ""))}

\* the definition after d, cyclically
NextDef(d) == (d % NumDefs) + 1

\* the bodies definition d may have
BodyChoices(d) ==
    {Leaf, ClosureCall}
    \cup {Straight(x) : x \in AllDefs}
    \cup {IfElse(x, y) : x \in AllDefs, y \in AllDefs}
    \cup {Twice(NextDef(d)), TwoInstantiations(NextDef(d)), MonoErrorCall(NextDef(d))}
    \cup {FaultyCalls(NextDef(d)), AbstractCall(NextDef(d))}
    \cup {FnPtrCall(sig) : sig \in CallSigs}

(***************************************************************************)
(* Graph notions the analyzer's claims are stated with, defined on the     *)
(* body alone.                                                             *)
(***************************************************************************)
SuccSet(cfg, S) == S \cup {t \in Blocks : \E b \in S : t \in Range(cfg[b].succ)}

RECURSIVE ReachFrom(_, _)
ReachFrom(cfg, S) ==
    IF SuccSet(cfg, S) = S THEN S ELSE ReachFrom(cfg, SuccSet(cfg, S))

\* the blocks reachable from the entry block
Reachable(cfg) == ReachFrom(cfg, {START_BLOCK})

RECURSIVE DistFrom(_, _, _, _)
DistFrom(cfg, S, b, k) ==
    IF b \in S THEN k ELSE DistFrom(cfg, SuccSet(cfg, S), b, k + 1)

\* the fewest-edge distance of a reachable block from the entry block
Dist(cfg, b) == DistFrom(cfg, {START_BLOCK}, b, 0)

\* the number of conditional branches among the blocks of a path, its last
\* block excluded
SwitchCount(cfg, blocks) ==
    Cardinality({i \in 1..(Len(blocks) - 1) : cfg[blocks[i]].kind = "SwitchInt"})

\* the block before the last one of a path of two blocks or more
Pred(path) == path.blocks[Len(path.blocks) - 1]

\* C7: the constraint count of every block in the result is the number of
\* SwitchInt terminators on its recorded path, the block itself excluded; the
\* entry block has count 0, and a step through a terminator that is no
\* SwitchInt adds 0 to the count and 1 to the length.
ConstraintCountIsSwitchCount ==
    \A b \in DOMAIN result :
        LET p == result[b]
        IN  /\ p.constraints = SwitchCount(body, p.blocks)
            /\ Len(p.constraint_details) = p.constraints
            /\ (b = START_BLOCK => p.constraints = 0 /\ p.length = 0)
            /\ (Len(p.blocks) >= 2 =>
                  /\ Pred(p) \in DOMAIN result
                  /\ p.length = result[Pred(p)].length + 1
                  /\ (body[Pred(p)].kind # "SwitchInt" =>
                        p.constraints = result[Pred(p)].constraints)
                  /\ (body[Pred(p)].kind = "SwitchInt" =>
                        p.constraints = result[Pred(p)].constraints + 1))

\* a finished traversal with a block behind two conditional branches and a
\* block entered through a Call that has two successors
ConstraintCountWitness ==
    /\ body # <<>>
    /\ queue = <<>>
    /\ \E b \in DOMAIN result : result[b].constraints = 2
    /\ \E b \in DOMAIN result :
          /\ Len(result[b].blocks) >= 2
          /\ body[Pred(result[b])].kind = "Call"
          /\ Len(body[Pred(result[b])].succ) = 2
          /\ result[b].constraints = 1

\* the recorded path of block b starts at the entry block, ends at b, follows
\* successor edges and is a shortest one
PathIsShortest(b) ==
    LET p == result[b]
    IN  /\ p.blocks[1] = START_BLOCK
        /\ Last(p.blocks) = b
        /\ Len(p.blocks) = p.length + 1
        /\ \A i \in 1..(Len(p.blocks) - 1) :
              p.blocks[i + 1] \in Range(body[p.blocks[i]].succ)
        /\ p.length = Dist(body, b)

ResultAtEnd ==
    queue = <<>> =>
        /\ DOMAIN result = Reachable(body)
        /\ \A b \in DOMAIN result : PathIsShortest(b)

\* C8: when the traversal ends the result has an entry for exactly the blocks
\* reachable from the entry block, each with a shortest path from the entry
\* block to it; and an entry, once assigned, is never assigned again.
ShortestPathsExact ==
    /\ [](body # <<>> => ResultAtEnd)
    /\ [][\A b \in DOMAIN result : b \in DOMAIN result' /\ result'[b] = result[b]]_vars

\* a finished traversal that left a block out and reached another one at
\* distance 2 that has two predecessors
ShortestPathsWitness ==
    /\ body # <<>>
    /\ queue = <<>>
    /\ DOMAIN result # Blocks
    /\ \E b \in DOMAIN result :
          /\ result[b].length = 2
          /\ \E c \in DOMAIN result :
                /\ c # Pred(result[b])
                /\ b \in Range(body[c].succ)


\* the blocks from which one edge leads to b on a fewest-edge path to b
ShortestPreds(cfg, b) ==
    {p \in Reachable(cfg) :
        /\ b \in Range(cfg[p].succ)
        /\ Dist(cfg, p) + 1 = Dist(cfg, b)}

\* the fewest conditional branches on a fewest-edge path from the entry
\* block to the reachable block b
RECURSIVE FewestBranches(_, _)
FewestBranches(cfg, b) ==
    IF b = START_BLOCK THEN 0
    ELSE LET via == {FewestBranches(cfg, p)
                        + (IF cfg[p].kind = "SwitchInt" THEN 1 ELSE 0) :
                     p \in ShortestPreds(cfg, b)}
         IN  CHOOSE n \in via : \A k \in via : n <= k

\* C25: when the traversal has ended the constraint count of every block is
\* the smallest number of conditional branches on any of its fewest-edge
\* paths from the entry block.
TieTakesFewestBranches ==
    (body # <<>> /\ queue = <<>>) =>
        \A b \in DOMAIN result : result[b].constraints = FewestBranches(body, b)

(***************************************************************************)
(* perform_mono_analysis as a state machine: one action per iteration of   *)
(* `while let Some(instance) = call_graph.instances.pop_front()` and one   *)
(* for the code after the loop.                                            *)
(***************************************************************************)
\* collect_generic_instances: the instances of the definitions in R, in the
\* order of tcx.hir_body_owners()
RECURSIVE RootsFrom(_, _)
RootsFrom(R, d) ==
    IF d > NumDefs THEN <<>>
    ELSE (IF d \in R THEN <<Instance(d, "T")>> ELSE <<>>) \o RootsFrom(R, d + 1)

Init ==
    /\ \E R \in SUBSET Defs : generic_instances = RootsFrom(R, 1)
    /\ no_dedup \in BOOLEAN
    /\ mir = <<>>
    /\ instances = generic_instances
    /\ call_sites = <<>>
    /\ discovered = {}
    /\ pc = "loop"
    /\ dequeued = <<>>
    /\ before = <<>>
    /\ PathsIdle
    /\ ExtrasIdle

\* the answers optimized_mir may give for the popped instance: the body
\* already given for its definition, else any body
MirAnswers(inst) ==
    IF IsNonInstance(inst) \/ ~IsMirAvailable(inst.def) THEN {mir}
    ELSE IF inst.def \in DOMAIN mir THEN {mir}
    ELSE {MapInsert(mir, inst.def, b) : b \in BodyChoices(inst.def)}

\* the generic arguments an instance may have
TyArgs == {"T", "i32", "String"}

\* every instance the program has
AllInstances ==
    {Instance(d, a) : d \in AllDefs, a \in TyArgs} \cup {NonInstance(d) : d \in AllDefs}

\* the number of dequeues after which Expand stops; the builder stays below it
DequeueCap == 2 * Cardinality(AllInstances) + 1

\* one iteration of the loop: pop an instance, collect its call sites, push them
Expand ==
    /\ pc = "loop"
    /\ instances # <<>>
    /\ Len(dequeued) < DequeueCap
    /\ LET instance == Head(instances)
       IN  \E bodies \in MirAnswers(instance) :
              LET found == CollectCallsites(generic_instances, bodies, instance)
                  g == PushCallSites([call_sites |-> call_sites,
                                      discovered |-> discovered,
                                      instances |-> Tail(instances)],
                                     found.callees, 1)
              IN  /\ ~found.panic
                  /\ mir' = bodies
                  /\ call_sites' = g.call_sites
                  /\ discovered' = g.discovered
                  /\ instances' = g.instances
                  /\ dequeued' = Append(dequeued, instance)
    /\ UNCHANGED <<generic_instances, no_dedup, pc, before, pvars, xvars>>

\* the queue is empty: deduplicate unless --no-dedup, and return
Finish ==
    /\ pc = "loop"
    /\ instances = <<>>
    /\ IF ~no_dedup
       THEN /\ call_sites' = DeduplicateCallSites(call_sites)
            /\ before' = Append(before, call_sites)
       ELSE UNCHANGED <<call_sites, before>>
    /\ pc' = "done"
    /\ UNCHANGED <<generic_instances, no_dedup, mir, instances, discovered,
                   dequeued, pvars, xvars>>

Next == Expand \/ Finish

Spec == Init /\ [][Next]_vars


(***************************************************************************)
(* Notions the builder's claims are stated with.                           *)
(***************************************************************************)
\* the instances popped so far
Expanded == Range(dequeued)

\* how often instance inst was popped
TimesDequeued(inst) == Cardinality({i \in 1..Len(dequeued) : dequeued[i] = inst})

\* whether the body of inst has been asked for, or inst has none
BodyKnown(inst) ==
    IsNonInstance(inst) \/ ~IsMirAvailable(inst.def) \/ inst.def \in DOMAIN mir

\* the call sites of inst, caller, callee and depth per resolved callee
SitesOf(inst) ==
    IF BodyKnown(inst) THEN CollectCallsites(generic_instances, mir, inst).callees
    ELSE <<>>

CalleesOf(inst) == {SitesOf(inst)[i].callee : i \in 1..Len(SitesOf(inst))}

RECURSIVE CallClosure(_)
CallClosure(S) ==
    LET N == S \cup UNION {CalleesOf(inst) : inst \in S}
    IN  IF N = S THEN S ELSE CallClosure(N)

\* the instances reachable from the roots through resolved call edges
ReachableInstances == CallClosure(Range(generic_instances))

\* the edges of a list whose caller is inst, in order
RECURSIVE EdgesFrom(_, _)
EdgesFrom(sites, inst) ==
    IF sites = <<>> THEN <<>>
    ELSE (IF Head(sites).caller = inst THEN <<Head(sites)>> ELSE <<>>)
         \o EdgesFrom(Tail(sites), inst)

\* the edge list the loop produced, before any deduplication
RawCallSites == IF before # <<>> THEN before[1] ELSE call_sites

\* the measure of the loop: twice the instances not yet discovered, plus the
\* length of the queue
QueueMeasure == 2 * Cardinality(AllInstances \ discovered) + Len(instances)

ExpandedAtMostOnce == \A inst \in Expanded : TimesDequeued(inst) <= 1

\* C3: when the build has ended every instance reachable from the roots
\* through resolved call edges has been expanded, the edge list holds an
\* edge for every resolved callee of every call of every expanded instance
\* (with that call's depth before deduplication), and both ends of every
\* edge have been popped.
GraphComplete ==
    pc = "done" =>
        /\ ReachableInstances \subseteq Expanded
        /\ \A inst \in Expanded : \A i \in 1..Len(SitesOf(inst)) :
              /\ \E k \in 1..Len(RawCallSites) : RawCallSites[k] = SitesOf(inst)[i]
              /\ \E k \in 1..Len(call_sites) :
                    /\ EdgeKey(call_sites[k]) = EdgeKey(SitesOf(inst)[i])
                    /\ call_sites[k].constraint_cnt <= SitesOf(inst)[i].constraint_cnt
        /\ \A k \in 1..Len(call_sites) :
              /\ call_sites[k].caller \in Expanded
              /\ call_sites[k].callee \in Expanded

\* a finished build in which an instance that is no root was expanded and had
\* two call sites, the second to a callee discovered before
GraphCompleteWitness ==
    /\ pc = "done"
    /\ \E inst \in Expanded \ Range(generic_instances) :
          /\ Len(SitesOf(inst)) = 2
          /\ \E k \in 1..Len(call_sites) :
                /\ call_sites[k].caller # inst
                /\ call_sites[k].callee = SitesOf(inst)[1].callee
          /\ SitesOf(inst)[2].callee # SitesOf(inst)[1].callee

\* C4: with deduplication off the edge list of a finished build holds one
\* edge per resolved callee per call instruction of each expanded instance;
\* so for two roots that call each other, and nothing else, it holds 2 edges.
OneEdgePerCall ==
    (pc = "done" /\ no_dedup) =>
        \A inst \in Expanded : EdgesFrom(call_sites, inst) = SitesOf(inst)

\* the block of a body that calls through a function pointer, when that call
\* is the only call of the body
IsOnlyFnPtrCall(cfg, b) ==
    /\ cfg[b].kind = "Call"
    /\ cfg[b].func.op \in {"Move", "Copy"}
    /\ cfg[b].func.ty.tag = "FnPtr"
    /\ \A c \in DOMAIN cfg : cfg[c].kind = "Call" => c = b

\* the definitions of the program whose signature equals sig after region
\* erasure: same arity, same return type, same parameter types
MatchingDefs(sig) ==
    {d \in Defs :
        /\ Len(FnSig(d).inputs) = Len(sig.inputs)
        /\ FnSig(d).output.base = sig.output.base
        /\ \A i \in 1..Len(sig.inputs) : FnSig(d).inputs[i].base = sig.inputs[i].base}

\* the edges an iteration of the loop appended
NewEdges == SubSeq(call_sites', Len(call_sites) + 1, Len(call_sites'))

\* whether the callee of an edge is one the operand of this call may resolve to
CalleeFits(callee, func) ==
    IF func.ty.tag = "FnDef" THEN callee.def = func.ty.def
    ELSE IF func.ty.tag = "FnPtr" THEN callee.def \in MatchingDefs(func.ty.sig)
    ELSE FALSE

\* C9: every edge emitted while instance X is expanded has caller X and the
\* constraint count the analyzer gives the block of its call; a call with no
\* conditional branch before it has depth 0 and the calls in the two arms of
\* an if/else have depth 1.
EdgeDepthIsBlockDepth ==
    /\ [][(pc = "loop" /\ instances # <<>>) =>
            LET X == Head(instances)
            IN  \A i \in 1..Len(NewEdges) :
                   /\ NewEdges[i].caller = X
                   /\ X.def \in DOMAIN mir'
                   /\ \E b \in DOMAIN mir'[X.def] :
                         /\ mir'[X.def][b].kind = "Call"
                         /\ CalleeFits(NewEdges[i].callee, mir'[X.def][b].func)
                         /\ b \in DOMAIN ComputeShortestPaths(mir'[X.def])
                         /\ NewEdges[i].constraint_cnt =
                              SwitchCount(mir'[X.def],
                                          ComputeShortestPaths(mir'[X.def])[b].blocks)]_vars
    /\ [](\A k \in 1..Len(call_sites) :
            LET e == call_sites[k]
            IN  /\ e.caller.def \in DOMAIN mir
                /\ (\E x \in AllDefs : mir[e.caller.def] = Straight(x))
                      => e.constraint_cnt = 0
                /\ (\E x, y \in AllDefs : mir[e.caller.def] = IfElse(x, y))
                      => e.constraint_cnt = 1)

\* an if/else whose arms call two different functions has been expanded, and
\* so has a body that calls without a branch
EdgeDepthWitness ==
    /\ \E i, j \in 1..Len(call_sites) :
          /\ call_sites[i].caller = call_sites[j].caller
          /\ call_sites[i].callee # call_sites[j].callee
          /\ \E x, y \in AllDefs : mir[call_sites[i].caller.def] = IfElse(x, y)
          /\ call_sites[i].constraint_cnt = 1
          /\ call_sites[j].constraint_cnt = 1
    /\ \E k \in 1..Len(call_sites) :
          /\ \E x \in AllDefs : mir[call_sites[k].caller.def] = Straight(x)
          /\ call_sites[k].constraint_cnt = 0

\* C10: expanding an instance whose body calls through a function pointer
\* appends exactly one edge per definition whose signature matches the
\* pointer's, each with the expanded instance as caller and the constraint
\* count of the call's block, and no edge when no definition matches.
FnPtrFanOut ==
    [][(pc = "loop" /\ instances # <<>>) =>
          LET X == Head(instances)
          IN  \A b \in (IF ~IsNonInstance(X) /\ X.def \in DOMAIN mir'
                         THEN DOMAIN mir'[X.def] ELSE {}) :
                 IsOnlyFnPtrCall(mir'[X.def], b) =>
                    LET sig == mir'[X.def][b].func.ty.sig
                    IN  /\ Len(NewEdges) = Cardinality(MatchingDefs(sig))
                        /\ {NewEdges[i].callee.def : i \in 1..Len(NewEdges)}
                              = MatchingDefs(sig)
                        /\ \A i \in 1..Len(NewEdges) :
                              /\ NewEdges[i].caller = X
                              /\ NewEdges[i].constraint_cnt =
                                   SwitchCount(mir'[X.def],
                                       ComputeShortestPaths(mir'[X.def])[b].blocks)]_vars

\* one expanded body called a pointer that two definitions match, another
\* one a pointer that none matches
FnPtrFanOutWitness ==
    /\ \E inst \in Expanded :
          /\ ~IsNonInstance(inst)
          /\ inst.def \in DOMAIN mir
          /\ \E b \in DOMAIN mir[inst.def] :
                /\ IsOnlyFnPtrCall(mir[inst.def], b)
                /\ Cardinality(MatchingDefs(mir[inst.def][b].func.ty.sig)) = 2
          /\ Len(EdgesFrom(call_sites, inst)) >= 2
    /\ \E inst \in Expanded :
          /\ ~IsNonInstance(inst)
          /\ inst.def \in DOMAIN mir
          /\ \E b \in DOMAIN mir[inst.def] :
                /\ IsOnlyFnPtrCall(mir[inst.def], b)
                /\ MatchingDefs(mir[inst.def][b].func.ty.sig) = {}
          /\ EdgesFrom(call_sites, inst) = <<>>


(***************************************************************************)
(* deduplicate_call_sites on its own: the edge list is drawn from the      *)
(* lists of at most MaxEdges edges between two instances, and the function *)
(* is applied to it, twice at most.                                        *)
(***************************************************************************)
\* longest edge list drawn
MaxEdges == 3

\* largest constraint count of a drawn edge
MaxDepth == 2

DedupEnds == {Instance(1, "T"), NonInstance(1)}

DedupEdges ==
    {CallSite(a, b, c) : a \in DedupEnds, b \in DedupEnds, c \in 0..MaxDepth}

InitDedup ==
    /\ \E n \in 0..MaxEdges : call_sites \in [1..n -> DedupEdges]
    /\ before = <<>>
    /\ generic_instances = <<>>
    /\ no_dedup = FALSE
    /\ mir = <<>>
    /\ instances = <<>>
    /\ discovered = {}
    /\ pc = "done"
    /\ dequeued = <<>>
    /\ PathsIdle
    /\ ExtrasIdle

\* call_graph.deduplicate_call_sites()
Deduplicate ==
    /\ pc = "done"
    /\ Len(before) < 2
    /\ call_sites' = DeduplicateCallSites(call_sites)
    /\ before' = Append(before, call_sites)
    /\ UNCHANGED <<bvars, pvars, xvars>>

NextDedup == Deduplicate

SpecDedup == InitDedup /\ [][NextDedup]_vars

\* the positions of an edge list that hold, for their (caller, callee) pair,
\* the first edge of minimum constraint count
FirstMinima(sites) ==
    {i \in 1..Len(sites) :
        \A j \in 1..Len(sites) :
            EdgeKey(sites[j]) = EdgeKey(sites[i]) =>
                \/ sites[j].constraint_cnt > sites[i].constraint_cnt
                \/ sites[j].constraint_cnt = sites[i].constraint_cnt /\ j >= i}

\* the edges of a list at the positions in P, in the order of the list
RECURSIVE AtPositions(_, _, _)
AtPositions(sites, P, i) ==
    IF i > Len(sites) THEN <<>>
    ELSE (IF i \in P THEN <<sites[i]>> ELSE <<>>) \o AtPositions(sites, P, i + 1)

\* what deduplicate_call_sites is to make of the list old
IsDeduplicationOf(new, old) ==
    /\ \A i \in 1..Len(old) :
          Cardinality({k \in 1..Len(new) : EdgeKey(new[k]) = EdgeKey(old[i])}) = 1
    /\ \A k \in 1..Len(new) :
          /\ \E i \in 1..Len(old) : old[i] = new[k]
          /\ \A i \in 1..Len(old) :
                EdgeKey(old[i]) = EdgeKey(new[k]) =>
                    new[k].constraint_cnt <= old[i].constraint_cnt
    /\ new = AtPositions(old, FirstMinima(old), 1)

\* the edge list after the k-th run of deduplicate_call_sites
AfterRun(k) == IF k < Len(before) THEN before[k + 1] ELSE call_sites

\* C5: after deduplicate_call_sites every (caller, callee) pair that had an
\* edge has exactly one, of the pair's minimum constraint count and the first
\* one of that count; no other edge is there, and the edges kept are in
\* their order of discovery.
DedupKeepsFirstMinimum ==
    \A k \in 1..Len(before) : IsDeduplicationOf(AfterRun(k), before[k])

\* a run that dropped edges of a pair whose minimum came second, and kept
\* edges of two pairs
DedupWitness ==
    /\ Len(before) = 1
    /\ Len(call_sites) = 2
    /\ \E i, j \in 1..Len(before[1]) :
          /\ i < j
          /\ EdgeKey(before[1][i]) = EdgeKey(before[1][j])
          /\ before[1][j].constraint_cnt < before[1][i].constraint_cnt

\* C6: a second run of deduplicate_call_sites leaves the edge list as the
\* first run made it.
DedupIdempotent == Len(before) = 2 => call_sites = before[2]

\* two runs, the first of which dropped an edge
DedupIdempotentWitness ==
    /\ Len(before) = 2
    /\ Len(before[2]) < Len(before[1])
    /\ Len(before[2]) >= 2


(***************************************************************************)
(* Calls the resolver cannot resolve.                                      *)
(***************************************************************************)
\* what is wrong with a call of caller through func, if anything
Fault(caller, func) ==
    IF ~func.ty.normalizes THEN "failed substitution"
    ELSE IF func.op = "Constant"
    THEN (IF func.ty.tag # "FnDef" THEN "unclassified"
          ELSE IF (IF func.ty.args = "T" THEN caller.args ELSE func.ty.args) = "{error}"
          THEN "resolution error"
          ELSE "none")
    ELSE IF func.ty.tag # "FnPtr" THEN "unclassified"
    ELSE "none"

\* the number of edges a call of caller through func gives: none for a call
\* that cannot be resolved, but one to the unresolved definition when the
\* substitution fails for a named definition
EdgesOfCall(caller, func) ==
    IF Fault(caller, func) = "failed substitution"
    THEN (IF func.op = "Constant" /\ func.ty.tag = "FnDef" THEN 1 ELSE 0)
    ELSE IF Fault(caller, func) # "none" THEN 0
    ELSE IF func.ty.tag = "FnDef" THEN 1
    ELSE Cardinality(MatchingDefs(func.ty.sig))

\* the number of edges the calls of body cfg give, from block b on
RECURSIVE EdgesOfBody(_, _, _)
EdgesOfBody(caller, cfg, b) ==
    IF b \notin DOMAIN cfg THEN 0
    ELSE (IF cfg[b].kind = "Call" THEN EdgesOfCall(caller, cfg[b].func) ELSE 0)
         + EdgesOfBody(caller, cfg, b + 1)

\* the blocks of the body of X that hold a call with the given fault
FaultyBlocks(X, fault) ==
    {b \in DOMAIN mir[X.def] :
        /\ mir[X.def][b].kind = "Call"
        /\ Fault(X, mir[X.def][b].func) = fault}

\* C14: a resolution error, a failed substitution, a callee that is neither
\* a named definition nor a function pointer and an instance without a body
\* never abort the build: no iteration of the loop can abort, the call gives
\* no edge (an edge to the unresolved definition for a failed substitution of
\* a named definition), an instance without a body gives no edge, and the
\* loop goes on until the queue is empty, every callee expanded.
FaultsAreNotFatal ==
    /\ []((pc = "loop" /\ instances # <<>>) =>
            \A bodies \in MirAnswers(Head(instances)) :
               ~CollectCallsites(generic_instances, bodies, Head(instances)).panic)
    /\ [][(pc = "loop" /\ instances # <<>>) =>
            LET X == Head(instances)
            IN  /\ dequeued' = Append(dequeued, X)
                /\ IF IsNonInstance(X) \/ ~IsMirAvailable(X.def)
                   THEN NewEdges = <<>>
                   ELSE /\ Len(NewEdges) = EdgesOfBody(X, mir'[X.def], START_BLOCK)
                        /\ \A b \in DOMAIN mir'[X.def] :
                              (/\ mir'[X.def][b].kind = "Call"
                               /\ Fault(X, mir'[X.def][b].func) = "failed substitution"
                               /\ EdgesOfCall(X, mir'[X.def][b].func) = 1)
                              => \E i \in 1..Len(NewEdges) :
                                    NewEdges[i].callee
                                       = NonInstance(mir'[X.def][b].func.ty.def)]_vars
    /\ [](pc = "done" =>
            /\ instances = <<>>
            /\ \A k \in 1..Len(call_sites) : call_sites[k].callee \in Expanded)

\* a finished build that expanded a body with a call of each faulty kind and
\* a call that resolves, the unresolved definition and an instance of a
\* definition without a body
FaultsWitness ==
    /\ pc = "done"
    /\ \E X \in Expanded :
          /\ ~IsNonInstance(X)
          /\ X.def \in DOMAIN mir
          /\ FaultyBlocks(X, "resolution error") # {}
          /\ FaultyBlocks(X, "unclassified") # {}
          /\ Cardinality(FaultyBlocks(X, "failed substitution")) = 2
          /\ FaultyBlocks(X, "none") # {}
          /\ Len(EdgesFrom(RawCallSites, X)) = 2 * TimesDequeued(X)
          /\ \E d \in Defs : NonInstance(d) \in Expanded
    /\ \E Y \in Expanded : ~IsNonInstance(Y) /\ ~IsMirAvailable(Y.def)

(***************************************************************************)
(* Bodies with a call in a block that no path from the entry block reaches.*)
(***************************************************************************)
\* bb0: return; bb1: x::<T>() -> bb0
DeadCall(x) ==
    BodyOf(<<Term("Return", <<>>), CallTerm(DirectCall(x, "T"), <<0>>)>>)

\* bb0: goto bb2; bb1: x::<T>() -> bb2; bb2: return
SkippedCall(x) ==
    BodyOf(<<Term("Goto", <<2>>), CallTerm(DirectCall(x, "T"), <<2>>),
             Term("Return", <<>>)>>)

\* the blocks of cfg that compute_shortest_paths leaves out of its map
UnreachableBlocks(cfg) == DOMAIN cfg \ DOMAIN ComputeShortestPaths(cfg)

\* the bodies definition d may have when blocks may be unreachable
BodyChoicesUnreachable(d) ==
    {Leaf, DeadCall(NextDef(d)), SkippedCall(NextDef(d)), SkippedCall(ForeignDef)}
    \cup {Straight(x) : x \in AllDefs}
    \cup {IfElse(x, y) : x \in AllDefs, y \in AllDefs}

\* a crate of which every body is known from the start and at least one has
\* a call in an unreachable block
InitUnreachable ==
    /\ \E R \in SUBSET Defs : generic_instances = RootsFrom(R, 1)
    /\ no_dedup \in BOOLEAN
    /\ mir \in [Defs -> UNION {BodyChoicesUnreachable(d) : d \in Defs}]
    /\ \A d \in Defs : mir[d] \in BodyChoicesUnreachable(d)
    /\ \E d \in Defs : \E b \in UnreachableBlocks(mir[d]) : mir[d][b].kind = "Call"
    /\ instances = generic_instances
    /\ call_sites = <<>>
    /\ discovered = {}
    /\ pc = "loop"
    /\ dequeued = <<>>
    /\ before = <<>>
    /\ PathsIdle
    /\ ExtrasIdle

\* the iteration of the loop in which `self.constraints[&self.current_bb]`
\* finds no entry for the block of a call: the index panics and the build
\* ends there
Abort ==
    /\ pc = "loop"
    /\ instances # <<>>
    /\ Len(dequeued) < DequeueCap
    /\ \E bodies \in MirAnswers(Head(instances)) :
          /\ CollectCallsites(generic_instances, bodies, Head(instances)).panic
          /\ mir' = bodies
    /\ pc' = "panicked"
    /\ dequeued' = Append(dequeued, Head(instances))
    /\ instances' = Tail(instances)
    /\ UNCHANGED <<generic_instances, no_dedup, call_sites, discovered, before,
                   pvars, xvars>>

NextUnreachable == Expand \/ Abort \/ Finish

SpecUnreachable == InitUnreachable /\ [][NextUnreachable]_vars

\* C24: the build does not abort for a body with a call in a block that is
\* not reachable from the entry block: no iteration of the loop ends in the
\* failed look-up of the constraint depth of a call's block.
UnreachableCallsDoNotAbort == pc # "panicked"

(***************************************************************************)
(* Direct calls: the callee handle_monoed_direct_callee gives.             *)
(***************************************************************************)
\* the generic arguments a call of caller through func has after substitution
ArgsOfCall(caller, func) ==
    IF func.ty.args = "T" THEN caller.args ELSE func.ty.args

\* func is a direct call of a function whose substitution succeeds
IsDirectCall(func) ==
    /\ func.op = "Constant"
    /\ func.ty.tag = "FnDef"
    /\ func.ty.normalizes
    /\ DefKind(func.ty.def) \in {"Fn", "AssocFn"}

\* how the resolution of definition d with arguments a ends
ResolutionOf(d, a) ==
    IF a = "{error}" THEN "error"
    ELSE IF a = "dyn" THEN "no unique implementation"
    ELSE IF a = "T" /\ d \in Defs /\ Instance(d, "T") \notin Range(generic_instances)
    THEN "no unique implementation"
    ELSE "resolved"

\* the trivial resolution of d succeeds: d resolves with its own parameters
TriviallyResolves(d) == ResolutionOf(d, "T") = "resolved"

\* the callees a direct call of caller through func is to give
CalleesOfDirectCall(caller, func) ==
    LET d == func.ty.def
        a == ArgsOfCall(caller, func)
    IN  IF ResolutionOf(d, a) = "error" THEN <<>>
        ELSE IF ResolutionOf(d, a) = "resolved" THEN <<Instance(d, a)>>
        ELSE IF TriviallyResolves(d) THEN <<Instance(d, "T")>>
        ELSE <<NonInstance(d)>>

\* the callees the direct calls of body cfg are to give, from block b on
RECURSIVE CalleesOfDirectCalls(_, _, _)
CalleesOfDirectCalls(caller, cfg, b) ==
    IF b \notin DOMAIN cfg THEN <<>>
    ELSE (IF cfg[b].kind = "Call"
          THEN CalleesOfDirectCall(caller, cfg[b].func) ELSE <<>>)
         \o CalleesOfDirectCalls(caller, cfg, b + 1)

\* every call of body cfg is a direct call
AllDirect(cfg) ==
    \A b \in DOMAIN cfg : cfg[b].kind = "Call" => IsDirectCall(cfg[b].func)

\* C21: a direct call whose substitution succeeds and whose callee is a
\* function or associated function gives exactly one callee, the resolved
\* instance, when the resolution succeeds; exactly one callee when there is
\* no unique implementation, the trivially resolved instance when the
\* trivial resolution succeeds and the unresolved definition otherwise; no
\* callee when the resolution is an error; and never more than one callee.
DirectCallGivesOneCallee ==
    /\ [](\A X \in AllInstances \cup {Instance(d, "dyn") : d \in AllDefs} :
          \A d \in AllDefs : \A a \in TyArgs \cup {"dyn", "{error}"} :
             LET func == DirectCall(d, a)
                 monod == Monomorphize(X, func.ty)
                 got == HandleMonoedDirectCallee(generic_instances, monod.ty)
             IN  /\ monod.ok
                 /\ Len(got) <= 1
                 /\ got = CalleesOfDirectCall(X, func))
    /\ [][(pc = "loop" /\ instances # <<>>) =>
            LET X == Head(instances)
            IN  (/\ ~IsNonInstance(X)
                 /\ IsMirAvailable(X.def)
                 /\ AllDirect(mir'[X.def]))
                => /\ Len(NewEdges) = Len(CalleesOfDirectCalls(X, mir'[X.def], START_BLOCK))
                   /\ \A i \in 1..Len(NewEdges) :
                         NewEdges[i].callee
                            = CalleesOfDirectCalls(X, mir'[X.def], START_BLOCK)[i]]_vars

\* a finished build that expanded a body whose one call names no one
\* implementation of a definition that resolves trivially, with the edge to
\* the trivially resolved instance as the only edge of that caller
DirectCallWitness ==
    /\ pc = "done"
    /\ \E X \in Expanded :
          /\ ~IsNonInstance(X) /\ X.def \in DOMAIN mir
          /\ \E d \in Defs :
                /\ mir[X.def] = AbstractCall(d)
                /\ TriviallyResolves(d)
                /\ ResolutionOf(d, "dyn") = "no unique implementation"
                /\ \A k \in 1..Len(call_sites) :
                      call_sites[k].caller = X
                         => call_sites[k].callee = Instance(d, "T")
                /\ \E k \in 1..Len(call_sites) : call_sites[k].caller = X

(***************************************************************************)
(* Calls whose substitution fails.                                         *)
(***************************************************************************)
\* the callee types whose substitution fails
FailingTys ==
    {FnDefTy(d, a, FALSE) : d \in AllDefs, a \in TyArgs}
    \cup {[FnPtrTy(sig) EXCEPT !.normalizes = FALSE] : sig \in CallSigs}
    \cup {[ClosureTy EXCEPT !.normalizes = FALSE]}

\* the operand is a statically named function: its type names a definition
NamesDefinition(func) == func.op = "Constant" /\ func.ty.tag = "FnDef"

\* the callee of the edges of caller X that the call in block b of its body
\* is to give, when it is a direct call or a call whose substitution failed
CalleesOfBlock(X, cfg, b) ==
    IF cfg[b].kind # "Call" THEN <<>>
    ELSE IF ~cfg[b].func.ty.normalizes
    THEN (IF NamesDefinition(cfg[b].func)
          THEN <<NonInstance(cfg[b].func.ty.def)>> ELSE <<>>)
    ELSE IF IsDirectCall(cfg[b].func) THEN CalleesOfDirectCall(X, cfg[b].func)
    ELSE <<>>

HasNoBody(inst) == IsNonInstance(inst) \/ ~IsMirAvailable(inst.def)

\* the (caller, callee) pairs of an edge list
PairsOf(sites) == {<<sites[k].caller, sites[k].callee>> : k \in 1..Len(sites)}

\* C23: in every state of the build no edge has an unresolved instance or an
\* instance without available body as its caller; such an instance, once
\* discovered as a callee, is dequeued once (never twice, and once when the
\* build has ended), its expansion adds no edge, and it stays the callee of
\* the edges that reach it, through deduplication too.
BodilessAreLeaves ==
    /\ [](\A k \in 1..Len(call_sites) : ~HasNoBody(call_sites[k].caller))
    /\ [](\A inst \in discovered :
            HasNoBody(inst) =>
               /\ TimesDequeued(inst) <= 1
               /\ pc = "done" => TimesDequeued(inst) = 1
               /\ TimesDequeued(inst) = 0
                     => \E i \in 1..Len(instances) : instances[i] = inst
               /\ \E k \in 1..Len(call_sites) : call_sites[k].callee = inst)
    /\ [][(pc = "loop" /\ instances # <<>> /\ HasNoBody(Head(instances)))
            => /\ NewEdges = <<>>
               /\ call_sites' = call_sites
               /\ dequeued' = Append(dequeued, Head(instances))]_vars
    /\ [][pc' = "done" => PairsOf(call_sites') = PairsOf(call_sites)]_vars

\* a finished build, deduplicated, in which an unresolved definition and an
\* instance of a definition without a body were each discovered as a callee
\* of two edges and dequeued
BodilessWitness ==
    /\ pc = "done"
    /\ ~no_dedup
    /\ \E U, V \in Expanded :
          /\ IsNonInstance(U)
          /\ ~IsNonInstance(V) /\ ~IsMirAvailable(V.def)
          /\ U \in discovered /\ V \in discovered
          /\ TimesDequeued(U) = 1 /\ TimesDequeued(V) = 1
          /\ \E k \in 1..Len(call_sites) : call_sites[k].callee = U
          /\ \E k \in 1..Len(call_sites) : call_sites[k].callee = V
          /\ \E k \in 1..Len(before[1]) : \E j \in 1..Len(before[1]) :
                k # j /\ before[1][k].callee = before[1][j].callee
                /\ HasNoBody(before[1][k].callee)

(***************************************************************************)
(* callgraph/utils.rs: find_callers_by_predicate, on a completed graph.    *)
(* The graph is an edge list over NumNodes instances, the predicate is the *)
(* set of instances it holds for.  A HashMap is iterated in any order.     *)
(***************************************************************************)
\* number of instances of a graph drawn for the caller search
NumNodes == 4

\* longest edge list drawn for the caller search
MaxQueryEdges == 3

\* largest constraint count of an edge drawn for the caller search
MaxWeight == 1

\* largest number of instances the predicate of a drawn search holds for
MaxTargets == 2

\* number of crates the definitions are spread over
NumCrates == 2

\* def_id.krate: the crate a definition belongs to
Krate(d) == d % NumCrates

\* CallSite::package_num
PackageNum(call_site) ==
    IF Krate(call_site.caller.def) = Krate(call_site.callee.def) THEN 1 ELSE 0

\* every callee of the edge list, the predicate left out
RECURSIVE TargetFunctionsAll(_, _)
TargetFunctionsAll(sites, predicate) ==
    IF sites = <<>> THEN <<>>
    ELSE <<Head(sites).callee>> \o TargetFunctionsAll(Tail(sites), predicate)

\* the callees of the edge list the predicate holds for, one per edge
RECURSIVE TargetFunctions(_, _)
TargetFunctions(sites, predicate) ==
    IF sites = <<>> THEN <<>>
    ELSE (IF Head(sites).callee \in predicate THEN <<Head(sites).callee>> ELSE <<>>)
         \o TargetFunctions(Tail(sites), predicate)

\* the loop over the call sites with and_modify keeping the smaller values
RECURSIVE CalleeToCallersMinFrom(_, _, _)
CalleeToCallersMinFrom(sites, i, m) ==
    IF i > Len(sites) THEN m
    ELSE LET caller == sites[i].caller
             callee == sites[i].callee
             constraints == sites[i].constraint_cnt
             package_num == PackageNum(sites[i])
             inner == IF callee \in DOMAIN m THEN m[callee] ELSE <<>>
             entry == IF caller \in DOMAIN inner
                      THEN [c |-> IF constraints < inner[caller].c
                                  THEN constraints ELSE inner[caller].c,
                            p |-> IF package_num < inner[caller].p
                                  THEN package_num ELSE inner[caller].p]
                      ELSE [c |-> constraints, p |-> package_num]
         IN  CalleeToCallersMinFrom(sites, i + 1,
                                    MapInsert(m, callee, MapInsert(inner, caller, entry)))

CalleeToCallersMin(sites) == CalleeToCallersMinFrom(sites, 1, <<>>)

\* the loop that fills callee_to_callers, from edge i on
RECURSIVE CalleeToCallersFrom(_, _, _)
CalleeToCallersFrom(sites, i, m) ==
    IF i > Len(sites) THEN m
    ELSE LET caller == sites[i].caller
             callee == sites[i].callee
             constraints == sites[i].constraint_cnt
             package_num == PackageNum(sites[i])
             inner == IF callee \in DOMAIN m THEN m[callee] ELSE <<>>
             entry == IF caller \in DOMAIN inner
                      THEN [c |-> inner[caller].c + constraints,
                            p |-> inner[caller].p + package_num]
                      ELSE [c |-> constraints, p |-> package_num]
         IN  CalleeToCallersFrom(sites, i + 1,
                                 MapInsert(m, callee, MapInsert(inner, caller, entry)))

\* callee_to_callers: callee -> caller -> (constraints, package_num)
CalleeToCallers(sites) == CalleeToCallersFrom(sites, 1, <<>>)

\* the queue the search starts with
SeedQueue(target_functions) ==
    [i \in 1..Len(target_functions) |-> [inst |-> target_functions[i], c |-> 0, p |-> 0]]

\* the body of `for (caller, ..) in callers` with the totals taken from the
\* edge alone, the path so far left out
RelaxCallerDirect(st, current, caller, contribution) ==
    LET total_constraints == contribution.c
        total_package_num == contribution.p
    IN  IF caller \notin st.processed
        THEN [st EXCEPT
                !.all_callers =
                    MapInsert(@, caller,
                        IF caller \in DOMAIN @
                        THEN [c |-> IF total_constraints < @[caller].c
                                    THEN total_constraints ELSE @[caller].c,
                              p |-> total_package_num]
                        ELSE [c |-> total_constraints, p |-> total_package_num]),
                !.queue = Append(@, [inst |-> caller, c |-> total_constraints,
                                     p |-> total_package_num])]
        ELSE st

\* the body of `for (caller, (constraints, package_num)) in callers`
RelaxCaller(st, current, caller, contribution) ==
    LET total_constraints == current.c + contribution.c
        total_package_num == current.p + contribution.p
    IN  IF caller \notin st.processed
        THEN [st EXCEPT
                !.all_callers =
                    MapInsert(@, caller,
                        IF caller \in DOMAIN @
                        THEN [c |-> IF total_constraints < @[caller].c
                                    THEN total_constraints ELSE @[caller].c,
                              p |-> total_package_num]
                        ELSE [c |-> total_constraints, p |-> total_package_num]),
                !.queue = Append(@, [inst |-> caller, c |-> total_constraints,
                                     p |-> total_package_num])]
        ELSE st

\* `for (caller, ..) in callers`, the callers taken in the given order
RECURSIVE RelaxCallers(_, _, _, _, _)
RelaxCallers(st, current, callers_of, order, i) ==
    IF i > Len(order) THEN st
    ELSE RelaxCallers(RelaxCaller(st, current, order[i], callers_of[order[i]]),
                      current, callers_of, order, i + 1)

\* the iteration without `processed.insert(current)`
RelaxIterationNoInsert(callee_to_callers, st, order) ==
    LET current == Head(st.queue)
        popped == [st EXCEPT !.queue = Tail(@)]
    IN  IF current.inst \in st.processed THEN popped
        ELSE IF current.inst \in DOMAIN callee_to_callers
        THEN RelaxCallers(popped, current, callee_to_callers[current.inst], order, 1)
        ELSE popped

\* one iteration of `while let Some((current, ..)) = queue.pop_front()`;
\* st is [all_callers, queue, processed]
RelaxIteration(callee_to_callers, st, order) ==
    LET current == Head(st.queue)
        popped == [st EXCEPT !.queue = Tail(@)]
    IN  IF current.inst \in st.processed THEN popped
        ELSE LET marked == [popped EXCEPT !.processed = @ \cup {current.inst}]
             IN  IF current.inst \in DOMAIN callee_to_callers
                 THEN RelaxCallers(marked, current,
                                   callee_to_callers[current.inst], order, 1)
                 ELSE marked

\* the orders a HashMap with the keys S may be iterated in
Orders(S) ==
    {o \in [1..Cardinality(S) -> S] : \A i, j \in 1..Cardinality(S) : o[i] = o[j] => i = j}

\* PathInfo { caller, constraints, package_num }
PathInfo(caller, constraints, package_num) ==
    [caller |-> caller, constraints |-> constraints, package_num |-> package_num]

\* the instances of a graph drawn for the caller search
QueryNodes == {Instance(d, "T") : d \in 1..NumNodes}

QueryEdges ==
    {CallSite(a, b, c) : a \in QueryNodes, b \in QueryNodes, c \in 0..MaxWeight}

\* the state a finished build leaves behind, but for the edge list
BuildDone ==
    /\ generic_instances = <<>>
    /\ no_dedup = FALSE
    /\ mir = <<>>
    /\ instances = <<>>
    /\ discovered = {}
    /\ pc = "done"
    /\ dequeued = <<>>
    /\ before = <<>>

InitQuery ==
    /\ \E n \in 0..MaxQueryEdges : call_sites \in [1..n -> QueryEdges]
    /\ matching \in {m \in SUBSET QueryNodes :
                         /\ Instance(NumNodes, "T") \in m
                         /\ Cardinality(m) <= MaxTargets}
    /\ all_callers = <<>>
    /\ fc_queue = <<>>
    /\ processed = {}
    /\ qpc = "start"
    /\ returned = <<>>
    /\ BuildDone
    /\ PathsIdle
    /\ AnalyzeIdle
    /\ ReportIdle
    /\ MatchIdle
    /\ TimerIdle
    /\ WrapperIdle

\* find_callers_by_predicate up to its loop: None when no callee matches
FindTargets ==
    /\ qpc = "start"
    /\ LET target_functions == TargetFunctions(call_sites, matching)
       IN  IF target_functions = <<>>
           THEN /\ qpc' = "done"
                /\ UNCHANGED fc_queue
           ELSE /\ qpc' = "loop"
                /\ fc_queue' = SeedQueue(target_functions)
    /\ UNCHANGED <<matching, all_callers, processed, returned>>
    /\ UNCHANGED <<pvars, bvars, dvars, avars, rvars, svars, tvars, wvars>>

\* one iteration of the loop of find_callers_by_predicate
Relax ==
    /\ qpc = "loop"
    /\ fc_queue # <<>>
    /\ LET callee_to_callers == CalleeToCallers(call_sites)
           current == Head(fc_queue).inst
           callers_of == IF current \in DOMAIN callee_to_callers /\ current \notin processed
                         THEN DOMAIN callee_to_callers[current] ELSE {}
       IN  \E order \in Orders(callers_of) :
              LET st == RelaxIteration(callee_to_callers,
                                       [all_callers |-> all_callers,
                                        queue |-> fc_queue,
                                        processed |-> processed], order)
              IN  /\ all_callers' = st.all_callers
                  /\ fc_queue' = st.queue
                  /\ processed' = st.processed
    /\ UNCHANGED <<matching, qpc, returned>>
    /\ UNCHANGED <<pvars, bvars, dvars, avars, rvars, svars, tvars, wvars>>

\* the end of find_callers_by_predicate: None when all_callers is empty, else
\* the entries of all_callers in the order the map gives them
ReturnCallers ==
    /\ qpc = "loop"
    /\ fc_queue = <<>>
    /\ IF DOMAIN all_callers = {}
       THEN UNCHANGED returned
       ELSE \E order \in Orders(DOMAIN all_callers) :
               returned' = <<[i \in 1..Len(order) |->
                                PathInfo(order[i], all_callers[order[i]].c,
                                         all_callers[order[i]].p)]>>
    /\ qpc' = "done"
    /\ UNCHANGED <<matching, all_callers, fc_queue, processed>>
    /\ UNCHANGED <<pvars, bvars, dvars, avars, rvars, svars, tvars, wvars>>

NextQuery == FindTargets \/ Relax \/ ReturnCallers

SpecQuery == InitQuery /\ [][NextQuery]_vars


(***************************************************************************)
(* The caller search against the paths of the graph.                       *)
(***************************************************************************)
\* the callees a has an edge to
Succ(a) == {call_sites[i].callee : i \in {j \in DOMAIN call_sites : call_sites[j].caller = a}}

\* the edges from a to b
EdgesBetween(a, b) ==
    {i \in DOMAIN call_sites : call_sites[i].caller = a /\ call_sites[i].callee = b}

RECURSIVE SumOver(_, _)
SumOver(S, f) ==
    IF S = {} THEN 0
    ELSE LET i == CHOOSE j \in S : TRUE IN f[i] + SumOver(S \ {i}, f)

\* what the calls from a to b add to a path's constraint depth
Contribution(a, b) ==
    SumOver(EdgesBetween(a, b), [i \in DOMAIN call_sites |-> call_sites[i].constraint_cnt])

\* the calls from a to b that cross from one crate into another
Crossings(a, b) ==
    SumOver(EdgesBetween(a, b),
            [i \in DOMAIN call_sites |->
                IF Krate(call_sites[i].caller.def) # Krate(call_sites[i].callee.def)
                THEN 1 ELSE 0])

\* the directed paths of one or more edges from n to an instance of targets,
\* no instance met twice but for a path that ends where it began; each with
\* the sums along it
RECURSIVE PathsTo(_, _, _)
PathsTo(targets, n, seen) ==
    UNION {
        (IF m \in targets
         THEN {[nodes |-> <<n, m>>, c |-> Contribution(n, m), x |-> Crossings(n, m)]}
         ELSE {})
        \cup
        (IF m \notin seen
         THEN {[nodes |-> <<n>> \o r.nodes,
                c |-> Contribution(n, m) + r.c,
                x |-> Crossings(n, m) + r.x] : r \in PathsTo(targets, m, seen \cup {m})}
         ELSE {})
        : m \in Succ(n)}

PathsToTargets(a) == PathsTo(matching, a, {a})

Reaches(a, b) == PathsTo({b}, a, {a}) # {}

MinCost(a) ==
    LET costs == {r.c : r \in PathsToTargets(a)}
    IN  CHOOSE c \in costs : \A d \in costs : c <= d

\* what the search returned, as a set of PathInfo
Returned == IF returned = <<>> THEN {} ELSE {returned[1][i] : i \in DOMAIN returned[1]}

ReturnedCallers == {r.caller : r \in Returned}

\* what the calls from a to b add to a path's crossing count, each edge with
\* the contribution CallSite::package_num gives it
CrossingContribution(a, b) ==
    SumOver(EdgesBetween(a, b), [i \in DOMAIN call_sites |-> PackageNum(call_sites[i])])

\* the edge list holds at most one edge per (caller, callee) pair
IsDeduplicated ==
    \A i, j \in DOMAIN call_sites :
        (call_sites[i].caller = call_sites[j].caller
         /\ call_sites[i].callee = call_sites[j].callee) => i = j

\* C26: in the reverse adjacency map the search builds, the entry of caller X
\* under callee Y is the sum of the constraint depths and the sum of the
\* crossing contributions of all X->Y edges of the edge list, the map has an
\* entry exactly for the pairs with an edge, and on a deduplicated edge list
\* the entry holds the values of the one X->Y edge.
ReverseMapSums ==
    qpc # "start" =>
        LET m == CalleeToCallers(call_sites)
        IN  /\ DOMAIN m = {call_sites[i].callee : i \in DOMAIN call_sites}
            /\ \A Y \in DOMAIN m :
                  /\ DOMAIN m[Y] = {X \in QueryNodes : EdgesBetween(X, Y) # {}}
                  /\ \A X \in DOMAIN m[Y] :
                        /\ m[Y][X].c = Contribution(X, Y)
                        /\ m[Y][X].p = CrossingContribution(X, Y)
                        /\ IsDeduplicated =>
                              \E i \in EdgesBetween(X, Y) :
                                 /\ m[Y][X].c = call_sites[i].constraint_cnt
                                 /\ m[Y][X].p = PackageNum(call_sites[i])

\* a finished search over an edge list with two X->Y edges of depth 1 and a
\* third edge, whose caller X is returned with the sum as its depth
ReverseMapWitness ==
    /\ qpc = "done"
    /\ returned # <<>>
    /\ \E X \in QueryNodes : \E Y \in matching :
          /\ X # Y
          /\ Cardinality(EdgesBetween(X, Y)) = 2
          /\ Contribution(X, Y) = 2
          /\ Krate(X.def) = Krate(Y.def)
          /\ Len(call_sites) = 3
          /\ \E k \in 1..Len(returned[1]) :
                /\ returned[1][k].caller = X
                /\ returned[1][k].constraints = 2
                /\ returned[1][k].package_num = 2

\* the instances of the edge list
GraphNodes ==
    {call_sites[i].caller : i \in DOMAIN call_sites}
    \cup {call_sites[i].callee : i \in DOMAIN call_sites}

\* what an iteration of the search lowers: every instance not yet processed
\* may still put each of its callers on the queue
SearchMeasure ==
    Cardinality(GraphNodes \ processed) * (Cardinality(GraphNodes) + 1) + Len(fc_queue)

\* C28: the search terminates on every finite graph, cycles and self calls
\* included: every iteration of the loop lowers a natural-number measure; an
\* iteration whose queue entry is for an instance already processed drops the
\* entry and changes nothing else; any other iteration marks the instance
\* processed, and no instance ever leaves the processed set, so the callers
\* of an instance are relaxed at most once.
SearchTerminates ==
    /\ [][(qpc = "loop" /\ fc_queue # <<>>) =>
            /\ SearchMeasure' < SearchMeasure
            /\ IF Head(fc_queue).inst \in processed
               THEN /\ fc_queue' = Tail(fc_queue)
                    /\ all_callers' = all_callers
                    /\ processed' = processed
               ELSE /\ processed' = processed \cup {Head(fc_queue).inst}
                    /\ Len(fc_queue') <= Len(fc_queue) - 1 + Cardinality(GraphNodes)]_vars
    /\ [][processed \subseteq processed']_vars
    /\ [](processed \subseteq GraphNodes)
    /\ [](qpc = "done" => fc_queue = <<>>)

\* the search at a queue entry for an instance already processed, on a graph
\* with a self call and a cycle of two instances through a target
SearchTerminatesWitness ==
    /\ qpc = "loop"
    /\ fc_queue # <<>>
    /\ Head(fc_queue).inst \in processed
    /\ \E a \in GraphNodes : EdgesBetween(a, a) # {}
    /\ \E a \in matching : \E b \in GraphNodes :
          a # b /\ EdgesBetween(a, b) # {} /\ EdgesBetween(b, a) # {}

\* a path of one or more edges leads from a to b
CallsInto(a, b) == \E n \in Succ(a) : n = b \/ Reaches(n, b)

\* C29: every instance the search returns has a path of one or more edges
\* to an instance the predicate holds for; every instance is returned once;
\* and the result is None, never an empty list: None when the predicate holds
\* for no callee and when no instance it holds for has a caller.
ReturnedAreCallers ==
    qpc = "done" =>
        /\ returned = <<>> \/ (Len(returned) = 1 /\ returned[1] # <<>>)
        /\ returned # <<>> =>
              /\ \A k \in 1..Len(returned[1]) :
                    \E t \in matching : CallsInto(returned[1][k].caller, t)
              /\ \A j, k \in 1..Len(returned[1]) :
                    returned[1][j].caller = returned[1][k].caller => j = k
        /\ (\A i \in DOMAIN call_sites : call_sites[i].callee \notin matching)
              => returned = <<>>
        /\ (\A t \in matching : \A a \in QueryNodes : EdgesBetween(a, t) = {})
              => returned = <<>>

\* a finished search that returned two callers, one of them with two paths
\* to the target, on a graph with an instance that calls no target
ReturnedWitness ==
    /\ qpc = "done"
    /\ returned # <<>>
    /\ Len(returned[1]) = 2
    /\ \E k \in 1..Len(returned[1]) :
          Cardinality(PathsToTargets(returned[1][k].caller)) >= 2
    /\ Cardinality(matching) = 1

\* the instances of S in the order of their definitions
RECURSIVE ByDef(_)
ByDef(S) ==
    IF S = {} THEN <<>>
    ELSE LET x == CHOOSE y \in S : \A z \in S : y.def <= z.def
         IN  <<x>> \o ByDef(S \ {x})

\* the loop of the search run to its end with every map iterated in the
\* order of the definitions
RECURSIVE SearchInDefOrder(_, _)
SearchInDefOrder(callee_to_callers, st) ==
    IF st.queue = <<>> THEN st
    ELSE LET current == Head(st.queue).inst
             callers_of == IF current \in DOMAIN callee_to_callers
                              /\ current \notin st.processed
                           THEN DOMAIN callee_to_callers[current] ELSE {}
         IN  SearchInDefOrder(callee_to_callers,
                              RelaxIteration(callee_to_callers, st, ByDef(callers_of)))

\* the entries the search returns when the targets are queued in the order
\* of their definitions and every map is iterated in that order
ResultInDefOrder ==
    LET targets == ByDef(Range(TargetFunctions(call_sites, matching)))
        st == SearchInDefOrder(CalleeToCallers(call_sites),
                               [all_callers |-> <<>>,
                                queue |-> SeedQueue(targets),
                                processed |-> {}])
    IN  {PathInfo(a, st.all_callers[a].c, st.all_callers[a].p) :
            a \in DOMAIN st.all_callers}

\* C30: the callers the search returns, each with its depth and crossing
\* count, are the same for every order in which the callers of the reverse
\* map are iterated and every order of the targets in the seed queue: they
\* are those of the search run in the order of the definitions.
ResultIsOrderFree ==
    qpc = "done" =>
        (IF returned = <<>> THEN {} ELSE Range(returned[1])) = ResultInDefOrder

(***************************************************************************)
(* callgraph.rs: find_callers, the search without depths.  Its maps are    *)
(* HashMap and HashSet: the callers of a callee are iterated in any order. *)
(***************************************************************************)
\* callee_to_callers: callee -> the set of its callers
LegacyCalleeToCallers(sites) ==
    [callee \in {sites[i].callee : i \in DOMAIN sites} |->
        {sites[i].caller : i \in {j \in DOMAIN sites : sites[j].callee = callee}}]

\* the body of `for caller in callers` with the insertion done for every
\* caller, processed or not
LegacyRelaxCallerAlways(st, caller) ==
    [st EXCEPT !.all_callers = @ \cup {caller}, !.queue = Append(@, caller)]

\* the body of `for caller in callers`
LegacyRelaxCaller(st, caller) ==
    IF caller \notin st.processed
    THEN [st EXCEPT !.all_callers = @ \cup {caller}, !.queue = Append(@, caller)]
    ELSE st

\* `for caller in callers`, the callers taken in the given order
RECURSIVE LegacyRelaxCallers(_, _, _)
LegacyRelaxCallers(st, order, i) ==
    IF i > Len(order) THEN st
    ELSE LegacyRelaxCallers(LegacyRelaxCaller(st, order[i]), order, i + 1)

\* one iteration of `while let Some(current) = queue.pop_front()`; st is
\* [all_callers, queue, processed]
LegacyIteration(callee_to_callers, st, order) ==
    LET current == Head(st.queue)
        popped == [st EXCEPT !.queue = Tail(@)]
    IN  IF current \in st.processed THEN popped
        ELSE LET marked == [popped EXCEPT !.processed = @ \cup {current}]
             IN  IF current \in DOMAIN callee_to_callers
                 THEN LegacyRelaxCallers(marked, order, 1)
                 ELSE marked

\* the values all_callers may have when the loop ends, over every order in
\* which the sets of callers may be iterated
RECURSIVE LegacyLoop(_, _)
LegacyLoop(callee_to_callers, st) ==
    IF st.queue = <<>> THEN {st.all_callers}
    ELSE LET current == Head(st.queue)
             callers_of == IF current \in DOMAIN callee_to_callers
                              /\ current \notin st.processed
                           THEN callee_to_callers[current] ELSE {}
         IN  UNION {LegacyLoop(callee_to_callers,
                               LegacyIteration(callee_to_callers, st, order)) :
                    order \in Orders(callers_of)}

\* find_callers from the matched callees on: the results it may give, <<>>
\* for None and <<S>> for Some(list of the callers S)
FindCallers(sites, target_functions) ==
    IF target_functions = <<>> THEN {<<>>}
    ELSE {IF all = {} THEN <<>> ELSE <<all>> :
             all \in LegacyLoop(LegacyCalleeToCallers(sites),
                                [all_callers |-> {},
                                 queue |-> target_functions,
                                 processed |-> {}])}

\* every edge of the edge list has constraint depth 0
AllDepthsZero == \A i \in DOMAIN call_sites : call_sites[i].constraint_cnt = 0

\* C27: when every edge has constraint depth 0 the set of callers the search
\* by predicate returns is the set the search without depths returns on the
\* same edge list and matched callees, whatever the iteration orders, None
\* for None, and every returned depth is 0.
PlainSearchAgrees ==
    (qpc = "done" /\ AllDepthsZero) =>
        /\ FindCallers(call_sites, TargetFunctions(call_sites, matching))
              = {IF returned = <<>> THEN <<>> ELSE <<ReturnedCallers>>}
        /\ \A r \in Returned : r.constraints = 0

\* a finished search on three edges of depth 0 that returned two callers or
\* more, one of them a target, with a callee that has two callers
PlainSearchWitness ==
    /\ qpc = "done"
    /\ AllDepthsZero
    /\ Len(call_sites) = 3
    /\ Cardinality(ReturnedCallers) >= 2
    /\ ReturnedCallers \cap matching # {}
    /\ \E b \in QueryNodes :
          Cardinality({a \in QueryNodes : EdgesBetween(a, b) # {}}) = 2

\* C11: once the search has returned, every instance with a path of one or
\* more call edges to a matching instance is among the returned callers,
\* matching instances and instances on a cycle included.
AllCallersReturned ==
    qpc = "done" =>
        \A a \in QueryNodes : PathsToTargets(a) # {} => a \in ReturnedCallers

\* C12: the constraint depth returned for a caller is the minimum of the sums
\* of the edge contributions over all paths from it to a matching instance.
DepthIsMinimum ==
    qpc = "done" => \A r \in Returned : r.constraints = MinCost(r.caller)

\* the graph has just the edges a->b, b->g and c->g and the target is g
IsScenario(a, b, c, g) ==
    /\ matching = {g}
    /\ Len(call_sites) = 3
    /\ Cardinality({a, b, c, g}) = 4
    /\ {<<call_sites[i].caller, call_sites[i].callee>> : i \in DOMAIN call_sites}
         = {<<a, b>>, <<b, g>>, <<c, g>>}

\* C13: on the graph a->b, b->g, c->g with target g the search returns just
\* a, b and c, b and c with the depth of their edge to g and a with the sum of
\* the depths of a->b and b->g; and a caller with a single path to the targets
\* is returned with the sum of the contributions along it.
SinglePathDepthIsSum ==
    qpc = "done" =>
        /\ \A a, b, c, g \in QueryNodes :
              IsScenario(a, b, c, g) =>
                 Returned = {PathInfo(a, Contribution(a, b) + Contribution(b, g),
                                      all_callers[a].p),
                             PathInfo(b, Contribution(b, g), all_callers[b].p),
                             PathInfo(c, Contribution(c, g), all_callers[c].p)}
        /\ \A r \in Returned :
              Cardinality(PathsToTargets(r.caller)) = 1 =>
                 \A q \in PathsToTargets(r.caller) : r.constraints = q.c

SinglePathWitness ==
    /\ qpc = "done"
    /\ \E a, b, c, g \in QueryNodes :
          /\ IsScenario(a, b, c, g)
          /\ Contribution(a, b) = 1
          /\ Contribution(b, g) = 1
          /\ \E r \in Returned : r.caller = a /\ r.constraints = 2

\* C17: the crossing count returned for a caller with a single path to the
\* targets is the number of edges on that path that lead from one crate into
\* another: 0 for an edge inside a crate, 1 for an edge between two.
CrossingCountsCrateChanges ==
    qpc = "done" =>
        \A r \in Returned :
           Cardinality(PathsToTargets(r.caller)) = 1 =>
              \A q \in PathsToTargets(r.caller) : r.package_num = q.x


(***************************************************************************)
(* callgraph/utils.rs: the predicate of find_callers_by_path.  A name is a *)
(* sequence of characters; positions count from 0 in the code and from 1   *)
(* here.                                                                   *)
(***************************************************************************)
\* String::truncate
Truncate(string, new_len) ==
    IF new_len < Len(string) THEN SubSeq(string, 1, new_len) ELSE string

\* str::contains
Contains(haystack, needle) ==
    \E k \in 0..(Len(haystack) - Len(needle)) :
        SubSeq(haystack, k + 1, k + Len(needle)) = needle

\* the body of `for (i, c) in path.char_indices()`, i counted from 0
ProcessChar(path, st, i) ==
    LET c == path[i + 1]
    IN  IF c = "<"
        THEN (IF ~st.in_generic /\ i >= 2 /\ SubSeq(path, i - 1, i) = <<":", ":">>
              THEN [st EXCEPT !.in_generic = TRUE,
                              !.angle_bracket_count = 1,
                              !.skip_from_index = i - 2,
                              !.result = Truncate(@, i - 2)]
              ELSE IF st.in_generic
              THEN [st EXCEPT !.angle_bracket_count = @ + 1]
              ELSE st)
        ELSE IF c = ">" /\ st.in_generic
        THEN (IF st.angle_bracket_count - 1 = 0
              THEN [st EXCEPT !.angle_bracket_count = 0, !.in_generic = FALSE]
              ELSE [st EXCEPT !.angle_bracket_count = @ - 1])
        ELSE IF ~st.in_generic /\ st.skip_from_index <= i
        THEN [st EXCEPT !.result = Append(@, c)]
        ELSE st

RECURSIVE ProcessFrom(_, _, _)
ProcessFrom(path, st, i) ==
    IF i >= Len(path) THEN st ELSE ProcessFrom(path, ProcessChar(path, st, i), i + 1)

\* the closure process_path
ProcessPath(path) ==
    ProcessFrom(path, [result |-> <<>>, in_generic |-> FALSE,
                       angle_bracket_count |-> 0, skip_from_index |-> 0], 0).result

\* the closure find_callers_by_path hands to find_callers_by_predicate
PathPredicate(base, full, target) ==
    IF Contains(target, <<"<">>)
    THEN Contains(base, target) \/ Contains(full, target)
    ELSE Contains(ProcessPath(base), target) \/ Contains(ProcessPath(full), target)

\* most segments of a name drawn
MaxSegments == 3

\* most pieces of a target drawn
MaxPieces == 3

RECURSIVE Flatten(_)
Flatten(ss) == IF ss = <<>> THEN <<>> ELSE Head(ss) \o Flatten(Tail(ss))

\* the generic arguments a segment of a name may carry: none, <T>, <V<T>>
GenericParts ==
    {<<>>, <<":", ":", "<", "T", ">">>, <<":", ":", "<", "V", "<", "T", ">", ">">>}

\* a segment of a name: an identifier and its generic arguments
Segments == {<<id>> \o g : id \in {"f", "g"}, g \in GenericParts}

\* the segments joined by "::"
RECURSIVE Join(_)
Join(segs) ==
    IF Len(segs) = 1 THEN segs[1] ELSE segs[1] \o <<":", ":">> \o Join(Tail(segs))

\* the identifier of a segment alone
Ident(seg) == <<seg[1]>>

\* tcx.def_path_str(def_id) for the name tcx.def_path_str_with_args gives:
\* the function's own generic arguments are not printed
DefPathStr(segs) ==
    Join([i \in 1..Len(segs) |-> IF i = Len(segs) THEN Ident(segs[i]) ELSE segs[i]])

\* the pieces targets are put together from
Pieces == {<<"f">>, <<"g">>, <<":", ":">>, <<"<", "T", ">">>}

InitMatch ==
    /\ \E n \in 1..MaxSegments : \E segs \in [1..n -> Segments] :
          /\ full_func_path = Join(segs)
          /\ base_path = DefPathStr(segs)
    /\ \E n \in 1..MaxPieces : \E ps \in [1..n -> Pieces] : target_path = Flatten(ps)
    /\ matched = <<>>
    /\ call_sites = <<>>
    /\ before = <<>>
    /\ BuildDone
    /\ PathsIdle
    /\ QueryIdle
    /\ AnalyzeIdle
    /\ ReportIdle
    /\ TimerIdle
    /\ WrapperIdle

\* the predicate runs on one candidate
MatchPath ==
    /\ matched = <<>>
    /\ matched' = <<PathPredicate(base_path, full_func_path, target_path)>>
    /\ UNCHANGED <<full_func_path, base_path, target_path>>
    /\ UNCHANGED <<pvars, bvars, dvars, qvars, avars, rvars, tvars, wvars>>

NextMatch == MatchPath

SpecMatch == InitMatch /\ [][NextMatch]_vars

\* the position of the '>' that closes the generic part whose arguments
\* begin at j, depth brackets being open
RECURSIVE CloseOf(_, _, _)
CloseOf(s, j, depth) ==
    IF j > Len(s) THEN Len(s)
    ELSE IF s[j] = "<" THEN CloseOf(s, j + 1, depth + 1)
    ELSE IF s[j] = ">" THEN (IF depth = 1 THEN j ELSE CloseOf(s, j + 1, depth - 1))
    ELSE CloseOf(s, j + 1, depth)

\* s from position i on with every part "::<...>" left out
RECURSIVE StripFrom(_, _)
StripFrom(s, i) ==
    IF i > Len(s) THEN <<>>
    ELSE IF i + 2 <= Len(s) /\ SubSeq(s, i, i + 2) = <<":", ":", "<">>
    THEN StripFrom(s, CloseOf(s, i + 3, 1) + 1)
    ELSE <<s[i]>> \o StripFrom(s, i + 1)

Stripped(s) == StripFrom(s, 1)

\* C18: a target without '<' matches when it is a substring of the base name
\* or the full name with every part "::<...>" removed, nested brackets and
\* any number of parts included; a target with '<' matches when it is a
\* substring of the base name or the full name as they are.
MatchIsStrippedMatch ==
    matched # <<>> =>
        matched[1] = (IF Contains(target_path, <<"<">>)
                      THEN \/ Contains(base_path, target_path)
                           \/ Contains(full_func_path, target_path)
                      ELSE \/ Contains(Stripped(base_path), target_path)
                           \/ Contains(Stripped(full_func_path), target_path))


(***************************************************************************)
(* callgraph/mod.rs: analyze_crate from the match on the two target        *)
(* options on.  The caller search is the one above; find_callers_by_hash   *)
(* is called but defined nowhere in the sources, its predicate is the      *)
(* exact match on the hash of the definition path.                         *)
(***************************************************************************)
\* longest edge list of a graph analyze_crate is run on
MaxAnalyzeEdges == 2

\* the instances of the graphs analyze_crate is run on
AnalyzeNodes == {Instance(1, "T"), Instance(2, "T")}

\* tcx.def_path_str for the definitions of these graphs
DefName(d) == IF d = 1 THEN <<"f">> ELSE <<"g">>

\* function_instance_to_string, without_args off
FunctionInstanceToString(inst) ==
    IF ~IsNonInstance(inst) /\ inst.args # ""
    THEN DefName(inst.def) \o <<":", ":", "<", "T", ">">>
    ELSE DefName(inst.def)

\* the instances the predicate of find_callers_by_path holds for
PathMatching(target) ==
    {n \in AnalyzeNodes :
        PathPredicate(DefName(n.def), FunctionInstanceToString(n), target)}

\* tcx.def_path_hash of the definition of an instance
StableHash(inst) == inst.def

\* the instances the predicate of find_callers_by_hash holds for
HashMatching(target_hash) == {n \in AnalyzeNodes : StableHash(n) = target_hash}

InitAnalyze ==
    /\ \E n \in 0..MaxAnalyzeEdges :
          call_sites \in [1..n -> {CallSite(a, b, 0) : a \in AnalyzeNodes, b \in AnalyzeNodes}]
    /\ find_callers \in {<<>>, <<DefName(1)>>, <<DefName(2)>>}
    /\ find_callers_by_hash \in {<<>>} \cup {<<StableHash(n)>> : n \in AnalyzeNodes}
    /\ apc = "match"
    /\ searches = <<>>
    /\ errors = <<>>
    /\ outputs = {}
    /\ exit_status = 0
    /\ before = <<>>
    /\ BuildDone
    /\ PathsIdle
    /\ QueryIdle
    /\ ReportIdle
    /\ MatchIdle
    /\ TimerIdle
    /\ WrapperIdle

\* the arm (Some(target_path), None) up to the call of find_callers_by_path
MatchPathOnly ==
    /\ apc = "match"
    /\ find_callers # <<>>
    /\ find_callers_by_hash = <<>>
    /\ searches' = Append(searches, "find_callers_by_path")
    /\ matching' = PathMatching(find_callers[1])
    /\ qpc' = "start"
    /\ apc' = "searching"
    /\ UNCHANGED <<all_callers, fc_queue, processed, returned>>
    /\ UNCHANGED <<find_callers, find_callers_by_hash, errors, outputs, exit_status>>
    /\ UNCHANGED <<pvars, bvars, dvars, rvars, svars, tvars, wvars>>

\* the arm (Some(_), Some(_)) run as the arm (Some(target_path), None)
MatchBothPrefersPath ==
    /\ apc = "match"
    /\ find_callers # <<>>
    /\ find_callers_by_hash # <<>>
    /\ searches' = Append(searches, "find_callers_by_path")
    /\ matching' = PathMatching(find_callers[1])
    /\ qpc' = "start"
    /\ apc' = "searching"
    /\ UNCHANGED <<all_callers, fc_queue, processed, returned>>
    /\ UNCHANGED <<find_callers, find_callers_by_hash, errors, outputs, exit_status>>
    /\ UNCHANGED <<pvars, bvars, dvars, rvars, svars, tvars, wvars>>

\* the arm (None, Some(target_hash)) up to the call of find_callers_by_hash
MatchHashOnly ==
    /\ apc = "match"
    /\ find_callers = <<>>
    /\ find_callers_by_hash # <<>>
    /\ searches' = Append(searches, "find_callers_by_hash")
    /\ matching' = HashMatching(find_callers_by_hash[1])
    /\ qpc' = "start"
    /\ apc' = "searching"
    /\ UNCHANGED <<all_callers, fc_queue, processed, returned>>
    /\ UNCHANGED <<find_callers, find_callers_by_hash, errors, outputs, exit_status>>
    /\ UNCHANGED <<pvars, bvars, dvars, rvars, svars, tvars, wvars>>

\* the rest of either arm: output_callers_result when the search gave Some
OutputCallers ==
    /\ apc = "searching"
    /\ qpc = "done"
    /\ outputs' = IF returned # <<>>
                  THEN outputs \cup {IF find_callers # <<>> THEN "callers"
                                     ELSE "callers_by_hash"}
                  ELSE outputs
    /\ apc' = "output"
    /\ UNCHANGED <<find_callers, find_callers_by_hash, searches, errors, exit_status>>
    /\ UNCHANGED <<pvars, bvars, dvars, qvars, rvars, svars, tvars, wvars>>

\* the arm (Some(_), Some(_)): tracing::error! and std::process::exit(1)
MatchBoth ==
    /\ apc = "match"
    /\ find_callers # <<>>
    /\ find_callers_by_hash # <<>>
    /\ errors' = Append(errors, "Both --find-callers-of and --find-callers-by-hash")
    /\ exit_status' = 1
    /\ apc' = "exited"
    /\ UNCHANGED <<find_callers, find_callers_by_hash, searches, outputs>>
    /\ UNCHANGED <<pvars, bvars, dvars, qvars, rvars, svars, tvars, wvars>>

\* the arm (None, None)
MatchNeither ==
    /\ apc = "match"
    /\ find_callers = <<>>
    /\ find_callers_by_hash = <<>>
    /\ apc' = "output"
    /\ UNCHANGED <<find_callers, find_callers_by_hash, searches, errors, outputs,
                   exit_status>>
    /\ UNCHANGED <<pvars, bvars, dvars, qvars, rvars, svars, tvars, wvars>>

\* output_call_graph_result, and analyze_crate returns
OutputCallGraph ==
    /\ apc = "output"
    /\ outputs' = outputs \cup {"callgraph"}
    /\ apc' = "returned"
    /\ UNCHANGED <<find_callers, find_callers_by_hash, searches, errors, exit_status>>
    /\ UNCHANGED <<pvars, bvars, dvars, qvars, rvars, svars, tvars, wvars>>

NextAnalyze ==
    \/ MatchPathOnly
    \/ MatchHashOnly
    \/ MatchBoth
    \/ MatchNeither
    \/ FindTargets
    \/ Relax
    \/ ReturnCallers
    \/ OutputCallers
    \/ OutputCallGraph

SpecAnalyze == InitAnalyze /\ [][NextAnalyze]_vars

NumReportDefs == 3

\* largest constraint count of a caller handed to the report
MaxReportDepth == 1

\* str::cmp: a is less than b
RECURSIVE StrLess(_, _)
StrLess(a, b) ==
    IF b = <<>> THEN FALSE
    ELSE IF a = <<>> THEN TRUE
    ELSE IF Head(a) # Head(b) THEN Head(a) < Head(b)
    ELSE StrLess(Tail(a), Tail(b))

\* the bytes of the decimal digits of n
RECURSIVE Decimal(_)
Decimal(n) == IF n < 10 THEN <<48 + n>> ELSE Decimal(n \div 10) \o <<48 + (n % 10)>>

\* format!("{:?}", instance): the variant, then the DefId as index and path;
\* def_path gives the index and the path of every definition
DebugName(inst) ==
    (IF IsNonInstance(inst) THEN <<78>> ELSE <<73>>)
    \o <<40>> \o Decimal(def_path[inst.def].index) \o <<126>> \o def_path[inst.def].path

\* function_instance_to_string: the path of the definition
DisplayName(inst) == def_path[inst.def].path

\* the comparison format_callers sorts with
CallerLess(x, y) ==
    \/ x.constraints < y.constraints
    \/ /\ x.constraints = y.constraints
       /\ StrLess(DebugName(x.caller), DebugName(y.caller))

\* x put into the sorted list after every element that is not greater
RECURSIVE InsertSorted(_, _)
InsertSorted(sorted, x) ==
    IF sorted = <<>> THEN <<x>>
    ELSE IF CallerLess(x, Head(sorted)) THEN <<x>> \o sorted
    ELSE <<Head(sorted)>> \o InsertSorted(Tail(sorted), x)

\* slice::sort_by, a stable sort
RECURSIVE SortBy(_)
SortBy(list) ==
    IF list = <<>> THEN <<>>
    ELSE InsertSorted(SortBy(SubSeq(list, 1, Len(list) - 1)), list[Len(list)])

\* the indices and the paths the definitions may have
DefPaths ==
    {f \in [1..NumReportDefs -> [index : {1, 2, 10}, path : {<<97>>, <<98>>, <<99>>}]] :
        \A d, e \in 1..NumReportDefs :
           d # e => (f[d].index # f[e].index /\ f[d].path # f[e].path)}

\* the lists of callers a search may return: each instance at most once
CallerLists ==
    UNION {{l \in [1..n -> [caller : {Instance(d, "T") : d \in 1..NumReportDefs},
                            constraints : 0..MaxReportDepth]] :
               \A i, j \in 1..n : i # j => l[i].caller # l[j].caller}
           : n \in 1..NumReportDefs}

InitReport ==
    /\ def_path \in DefPaths
    /\ callers \in CallerLists
    /\ sorted_callers = <<>>
    /\ call_sites = <<>>
    /\ before = <<>>
    /\ BuildDone
    /\ PathsIdle
    /\ QueryIdle
    /\ AnalyzeIdle
    /\ MatchIdle
    /\ TimerIdle
    /\ WrapperIdle

\* format_callers: the callers are sorted and listed in that order
FormatCallers ==
    /\ sorted_callers = <<>>
    /\ sorted_callers' = SortBy(callers)
    /\ UNCHANGED <<def_path, callers>>
    /\ UNCHANGED <<pvars, bvars, dvars, qvars, avars, svars, tvars, wvars>>

NextReport == FormatCallers

SpecReport == InitReport /\ [][NextReport]_vars

\* the names listed in the report, in order, each with its constraint count
Listed ==
    [i \in 1..Len(sorted_callers) |->
        [name |-> DisplayName(sorted_callers[i].caller),
         constraints |-> sorted_callers[i].constraints]]

\* the rearrangements of a list
Rearrangements(list) ==
    {[i \in 1..Len(list) |-> list[o[i]]] : o \in Orders(1..Len(list))}

\* C16: the report lists the callers by constraint count ascending and,
\* among equal counts, by name ascending, and the listing is the same for
\* every order the callers are handed in.
ReportSortedByName ==
    sorted_callers # <<>> =>
        /\ \A i, j \in 1..Len(Listed) :
              i < j => \/ Listed[i].constraints < Listed[j].constraints
                       \/ /\ Listed[i].constraints = Listed[j].constraints
                          /\ StrLess(Listed[i].name, Listed[j].name)
        /\ \A l \in Rearrangements(callers) : SortBy(l) = sorted_callers


(***************************************************************************)
(* timer.rs: measure, Timer::start and Timer::stop on the global TIMER.    *)
(* Each of start and stop runs under the mutex of the map, so it is one    *)
(* step; the durations are left out.                                       *)
(***************************************************************************)
\* number of threads that call measure
NumThreads == 2

\* deepest nesting of calls of measure within one thread
MaxNesting == 2

\* most calls of measure begun in a run
MaxCalls == 3

Threads == 1..NumThreads

TimerNames == {"a", "b"}

\* the values f may return
Values == {0, 1}

\* TimerData::new
TimerDataNew == [running |-> FALSE, count |-> 0]

\* Timer::start on the map
TimerStart(map, name) ==
    LET timer == IF name \in DOMAIN map THEN map[name] ELSE TimerDataNew
    IN  IF timer.running THEN MapInsert(map, name, timer)
        ELSE MapInsert(map, name, [timer EXCEPT !.running = TRUE])

\* Timer::stop on the map
TimerStop(map, name) ==
    IF name \in DOMAIN map
    THEN (IF map[name].running
          THEN MapInsert(map, name, [running |-> FALSE, count |-> map[name].count + 1])
          ELSE map)
    ELSE map

\* the calls of measure begun so far
CallsBegun ==
    LET active == [t \in Threads |-> Len(frames[t])]
        done == [n \in TimerNames |-> completed[n]]
    IN  SumOver(Threads, active) + SumOver(TimerNames, done)

InitTimer ==
    /\ timers = <<>>
    /\ frames = [t \in Threads |-> <<>>]
    /\ completed = [n \in TimerNames |-> 0]
    /\ results = [t \in Threads |-> <<>>]
    /\ call_sites = <<>>
    /\ before = <<>>
    /\ BuildDone
    /\ PathsIdle
    /\ QueryIdle
    /\ AnalyzeIdle
    /\ ReportIdle
    /\ MatchIdle
    /\ WrapperIdle

\* thread t calls measure(name, f), at top level or from within a running f,
\* and measure runs Timer::start(name)
MeasureStart(t, name) ==
    /\ Len(frames[t]) < MaxNesting
    /\ CallsBegun < MaxCalls
    /\ frames[t] # <<>> => Last(frames[t]).at = "f"
    /\ timers' = TimerStart(timers, name)
    /\ frames' = [frames EXCEPT ![t] = Append(@, [name |-> name, at |-> "f", result |-> 0])]
    /\ UNCHANGED <<completed, results>>
    /\ UNCHANGED <<pvars, bvars, dvars, qvars, avars, rvars, svars, wvars>>

\* f returns a value in thread t
MeasureRun(t, v) ==
    /\ frames[t] # <<>>
    /\ Last(frames[t]).at = "f"
    /\ frames' = [frames EXCEPT ![t][Len(frames[t])] = [@ EXCEPT !.at = "stop", !.result = v]]
    /\ UNCHANGED <<timers, completed, results>>
    /\ UNCHANGED <<pvars, bvars, dvars, qvars, avars, rvars, svars, wvars>>

\* measure runs Timer::stop(name) and returns result
MeasureStop(t) ==
    /\ frames[t] # <<>>
    /\ Last(frames[t]).at = "stop"
    /\ timers' = TimerStop(timers, Last(frames[t]).name)
    /\ frames' = [frames EXCEPT ![t] = SubSeq(@, 1, Len(@) - 1)]
    /\ completed' = [completed EXCEPT ![Last(frames[t]).name] = @ + 1]
    /\ results' = [results EXCEPT ![t] = <<Last(frames[t]).result>>]
    /\ UNCHANGED <<pvars, bvars, dvars, qvars, avars, rvars, svars, wvars>>

NextTimer ==
    \/ \E t \in Threads, name \in TimerNames : MeasureStart(t, name)
    \/ \E t \in Threads, v \in Values : MeasureRun(t, v)
    \/ \E t \in Threads : MeasureStop(t)

SpecTimer == InitTimer /\ [][NextTimer]_vars

\* the recorded count of a timer
RecordedCount(map, name) == IF name \in DOMAIN map THEN map[name].count ELSE 0

\* C19: every call of measure(name, f) that completes returns the result of
\* f, adds exactly 1 to the count of the timer and leaves the timer stopped,
\* also when f calls measure with the same name and when two threads measure
\* the same name at overlapping times.
MeasureCountsEveryCall ==
    [][\A t \in Threads :
          Len(frames'[t]) < Len(frames[t]) =>
             LET name == Last(frames[t]).name
             IN  /\ results'[t] = <<Last(frames[t]).result>>
                 /\ RecordedCount(timers', name) = RecordedCount(timers, name) + 1
                 /\ ~timers'[name].running]_vars


(***************************************************************************)
(* bin/call-cg4rs.rs: main with its two tasks, the process-tree monitor    *)
(* and the signal handler, and the processes below it.  The state starts   *)
(* when both tasks are installed.                                          *)
(***************************************************************************)
\* most processes started below the wrapper in a run
MaxPids == 3

Pids == 1..MaxPids

\* the pid of the wrapper itself
WrapperPid == 0

\* the pid the next process started gets
FreshPid == Cardinality(DOMAIN procs) + 1

\* a process with parent p is started
Started(p) ==
    MapInsert(procs, FreshPid, [parent |-> p, alive |-> TRUE, at_signal |-> FALSE])

\* the processes alive
Alive == {p \in DOMAIN procs : procs[p].alive}

\* get_process_descendants: the live processes below pid, found through the
\* parent recorded in /proc/PID/stat
RECURSIVE DescendantsFrom(_, _)
DescendantsFrom(to_check, found) ==
    LET next == {q \in Alive : procs[q].parent \in to_check} \ found
    IN  IF next = {} THEN found ELSE DescendantsFrom(next, found \cup next)

GetProcessDescendants(pid) == DescendantsFrom({pid}, {})

\* libc::kill(pid, sig) for every pid of pids: recorded for the pids alive
RECURSIVE KillAll(_, _, _)
KillAll(log, pids, sig) ==
    IF pids = {} THEN log
    ELSE LET pid == CHOOSE q \in pids : TRUE
             hit == IF pid \in Alive
                    THEN MapInsert(log, pid,
                                   Append(IF pid \in DOMAIN log THEN log[pid] ELSE <<>>, sig))
                    ELSE log
         IN  KillAll(hit, pids \ {pid}, sig)

InitWrapper ==
    /\ child_processes = {}
    /\ procs = <<>>
    /\ wpc \in {"cargo_clean", "cargo_cg4rs"}
    /\ wchild = 0
    /\ hpc = "select"
    /\ hpids = {}
    /\ signal = "none"
    /\ sent = <<>>
    /\ wexit = <<>>
    /\ call_sites = <<>>
    /\ before = <<>>
    /\ BuildDone
    /\ PathsIdle
    /\ QueryIdle
    /\ AnalyzeIdle
    /\ ReportIdle
    /\ MatchIdle
    /\ TimerIdle

\* cargo_clean, cargo_cg4rs: Command::new("cargo")..spawn()
SpawnChild ==
    /\ wexit = <<>>
    /\ wpc \in {"cargo_clean", "cargo_cg4rs"}
    /\ FreshPid \in Pids
    /\ procs' = Started(WrapperPid)
    /\ wchild' = FreshPid
    /\ wpc' = IF wpc = "cargo_clean" THEN "wait_clean" ELSE "wait_cg4rs"
    /\ UNCHANGED <<child_processes, hpc, hpids, signal, sent, wexit>>
    /\ UNCHANGED <<pvars, bvars, dvars, qvars, avars, rvars, svars, tvars>>

\* cargo_clean, cargo_cg4rs: child.wait() returns; main returns after the
\* second
WaitChild ==
    /\ wexit = <<>>
    /\ wpc \in {"wait_clean", "wait_cg4rs"}
    /\ ~procs[wchild].alive
    /\ IF wpc = "wait_clean"
       THEN /\ wpc' = "cargo_cg4rs"
            /\ UNCHANGED wexit
       ELSE /\ wpc' = "returned"
            /\ wexit' = <<0>>
    /\ UNCHANGED <<child_processes, procs, wchild, hpc, hpids, signal, sent>>
    /\ UNCHANGED <<pvars, bvars, dvars, qvars, avars, rvars, svars, tvars>>

\* a process below the wrapper starts a process of its own
Fork(p) ==
    /\ wexit = <<>>
    /\ p \in Alive
    /\ FreshPid \in Pids
    /\ procs' = Started(p)
    /\ UNCHANGED <<child_processes, wpc, wchild, hpc, hpids, signal, sent, wexit>>
    /\ UNCHANGED <<pvars, bvars, dvars, qvars, avars, rvars, svars, tvars>>

\* a process below the wrapper ends, its own processes having ended
Exit(p) ==
    /\ wexit = <<>>
    /\ p \in Alive
    /\ \A q \in Alive : procs[q].parent # p
    /\ procs' = [procs EXCEPT ![p].alive = FALSE]
    /\ UNCHANGED <<child_processes, wpc, wchild, hpc, hpids, signal, sent, wexit>>
    /\ UNCHANGED <<pvars, bvars, dvars, qvars, avars, rvars, svars, tvars>>

\* start_process_tree_monitoring: one round of the loop
MonitorRound ==
    /\ wexit = <<>>
    /\ child_processes' =
          child_processes \cup UNION {GetProcessDescendants(pid) : pid \in child_processes}
    /\ UNCHANGED <<procs, wpc, wchild, hpc, hpids, signal, sent, wexit>>
    /\ UNCHANGED <<pvars, bvars, dvars, qvars, avars, rvars, svars, tvars>>

\* setup_signal_handling: SIGINT or SIGTERM is received
Receive(sig) ==
    /\ wexit = <<>>
    /\ hpc = "select"
    /\ signal' = sig
    /\ hpc' = "terminate"
    /\ procs' = [p \in DOMAIN procs |-> [procs[p] EXCEPT !.at_signal = procs[p].alive]]
    /\ UNCHANGED <<child_processes, wpc, wchild, hpids, sent, wexit>>
    /\ UNCHANGED <<pvars, bvars, dvars, qvars, avars, rvars, svars, tvars>>

\* terminate_child_processes: the set is copied and SIGTERM sent to its pids
SendSigterm ==
    /\ wexit = <<>>
    /\ hpc = "terminate"
    /\ hpids' = child_processes
    /\ sent' = KillAll(sent, child_processes, "SIGTERM")
    /\ hpc' = "sleep"
    /\ UNCHANGED <<child_processes, procs, wpc, wchild, signal, wexit>>
    /\ UNCHANGED <<pvars, bvars, dvars, qvars, avars, rvars, svars, tvars>>

\* terminate_child_processes after the sleep: SIGKILL sent to the same pids;
\* then std::process::exit(130) or exit(143)
SendSigkillAndExit ==
    /\ wexit = <<>>
    /\ hpc = "sleep"
    /\ sent' = KillAll(sent, hpids, "SIGKILL")
    /\ hpc' = "exited"
    /\ wexit' = <<IF signal = "SIGINT" THEN 130 ELSE 143>>
    /\ UNCHANGED <<child_processes, procs, wpc, wchild, hpids, signal>>
    /\ UNCHANGED <<pvars, bvars, dvars, qvars, avars, rvars, svars, tvars>>

NextWrapper ==
    \/ SpawnChild
    \/ WaitChild
    \/ \E p \in Pids : Fork(p)
    \/ \E p \in Pids : Exit(p)
    \/ MonitorRound
    \/ \E sig \in {"SIGINT", "SIGTERM"} : Receive(sig)
    \/ SendSigterm
    \/ SendSigkillAndExit

SpecWrapper == InitWrapper /\ [][NextWrapper]_vars

\* C20: when the wrapper exits with 130 or 143 after SIGINT or SIGTERM,
\* every process below it that was alive when the signal arrived and is
\* alive still, the children it started and their descendants, has been
\* sent SIGTERM and then SIGKILL.
ChildrenTerminatedBeforeExit ==
    (wexit = <<130>> \/ wexit = <<143>>) =>
        \A p \in Alive :
           procs[p].at_signal =>
              /\ p \in DOMAIN sent
              /\ sent[p] = <<"SIGTERM", "SIGKILL">>

====
